------------------------------- MODULE AuditLog -------------------------------
(***************************************************************************)
(* The audit log of one environment (internal/audit): audit.jsonl and one  *)
(* rotated generation, audit.jsonl.1.  Append compares the size of the     *)
(* file with the limit and, when it has reached it, removes the old        *)
(* generation and renames the file; then it writes its record.  The        *)
(* commands that append exclude each other by the environment lock, and    *)
(* ignore its errors.                                                      *)
(*                                                                         *)
(* Sizes are in bytes, in a small unit.  A record is told by its age, the  *)
(* number of records written after it, up to MaxAge, so nothing here grows *)
(* without bound.                                                          *)
(***************************************************************************)
EXTENDS Naturals, SequencesExt

CONSTANTS
  Limits,  \* the values of auditMaxMiB, which is read for each record
  Sizes    \* the sizes of records

ASSUME AuditAssumption ==
  /\ Limits \subseteq Nat \ {0} /\ Limits # {} /\ IsFiniteSet(Limits)
  /\ Sizes \subseteq Nat \ {0} /\ Sizes # {} /\ IsFiniteSet(Sizes)

VARIABLES
  current, size,         \* the records of audit.jsonl, and its size
  rotated, rotatedSize,  \* those of audit.jsonl.1
  next,                  \* the next call of the command that appends
  appended               \* history: how many records were ever written, up to MaxAge

currentVars == <<current, size>>
rotatedVars == <<rotated, rotatedSize>>
vars == <<currentVars, rotatedVars, next, appended>>

(* The file is rotated before it takes a further record, not when the      *)
(* record would not fit: it may exceed the limit by less than one.         *)
FileBound == Max(Limits) - 1 + Max(Sizes)

(* More than both files can hold, at one byte a record.                    *)
MaxAge == 2 * FileBound + 1
Ages == 0..MaxAge

AuditTypeOK ==
  /\ current \in Seq(Ages) /\ size \in Nat
  /\ rotated \in Seq(Ages) /\ rotatedSize \in Nat
  /\ next \in {"idle", "remove", "rename", "write"}
  /\ appended \in Ages

Init ==
  /\ current = <<>> /\ size = 0
  /\ rotated = <<>> /\ rotatedSize = 0
  /\ next = "idle"
  /\ appended = 0

Older(age) == IF age < MaxAge THEN age + 1 ELSE age

-----------------------------------------------------------------------------
(* Mutant: the file is rotated once it is larger than the limit.           *)
CheckSize_Larger(limit) ==
  /\ next = "idle"
  /\ next' = IF size > limit THEN "remove" ELSE "write"
  /\ UNCHANGED <<currentVars, rotatedVars, appended>>

CheckSize(limit) ==
  /\ next = "idle"
  /\ next' = IF size >= limit THEN "remove" ELSE "write"
  /\ UNCHANGED <<currentVars, rotatedVars, appended>>

(* An error of the removal is ignored: the rename replaces the file.       *)
RemoveRotated ==
  /\ next = "remove"
  /\ next' = "rename"
  /\ \/ rotated' = <<>> /\ rotatedSize' = 0
     \/ UNCHANGED rotatedVars
  /\ UNCHANGED <<currentVars, appended>>

(* Mutant: the file is emptied in place of being renamed.                  *)
Rename_Empties ==
  /\ next = "rename"
  /\ next' = "write"
  /\ current' = <<>> /\ size' = 0
  /\ UNCHANGED <<rotatedVars, appended>>

Rename ==
  /\ next = "rename"
  /\ next' = "write"
  /\ rotated' = current /\ rotatedSize' = size
  /\ current' = <<>> /\ size' = 0
  /\ UNCHANGED appended

WriteRecord(bytes) ==
  /\ next = "write"
  /\ next' = "idle"
  /\ current' = Append([k \in DOMAIN current |-> Older(current[k])], 0)
  /\ size' = size + bytes
  /\ rotated' = [k \in DOMAIN rotated |-> Older(rotated[k])]
  /\ appended' = Older(appended)
  /\ UNCHANGED rotatedSize

(* A write cut off, by a full disk or by death: some bytes of a record,    *)
(* which is lost.                                                          *)
TornWrite(bytes) ==
  /\ next = "write"
  /\ next' = "idle"
  /\ \E written \in 1..bytes - 1 : size' = size + written
  /\ UNCHANGED <<current, rotatedVars, appended>>

(* An error or the death of the command: what was done stays.              *)
Fail ==
  /\ next # "idle"
  /\ next' = "idle"
  /\ UNCHANGED <<currentVars, rotatedVars, appended>>

Next ==
  \/ \E limit \in Limits : CheckSize(limit)
  \/ RemoveRotated \/ Rename
  \/ \E bytes \in Sizes : WriteRecord(bytes) \/ TornWrite(bytes)
  \/ Fail

Spec == Init /\ [][Next]_vars

-----------------------------------------------------------------------------
(* Audit logs are bounded: neither file ever exceeds the largest limit by  *)
(* a whole record, whatever is torn, cut off or changed meanwhile.         *)
LogBounded == size <= FileBound /\ rotatedSize <= FileBound

(* The log, the old generation and then the current one, ends with the     *)
(* newest records in their order and without a gap, wherever rotations     *)
(* were cut off and however the limit was changed meanwhile; and unless it *)
(* has all there are, the files hold at least the smallest limit's bytes.  *)
Log == rotated \o current

LogEndsWithNewest ==
  /\ \A k \in 0..Len(Log) - 1 : Log[Len(Log) - k] = k
  /\ Len(Log) = appended \/ size + rotatedSize >= Min(Limits)
=============================================================================
