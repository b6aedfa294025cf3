---------------------------- MODULE AuditLogProofs -----------------------------
(***************************************************************************)
(* Theorems of AuditLog, for any finite sets of limits and of record       *)
(* sizes: the log is bounded and ends with the newest records, whatever    *)
(* the order of the limits and wherever a rotation or a write is cut off.  *)
(***************************************************************************)
EXTENDS AuditLog, FiniteSetTheorems, TLAPS

(* A finite set of numbers has a largest and a smallest: consider the      *)
(* smallest part of it that had not.                                       *)
HasEnds(S) ==
  /\ \E m \in S : \A n \in S : m >= n
  /\ \E m \in S : \A n \in S : m <= n

LEMMA FiniteHasEnds ==
  ASSUME NEW S \in SUBSET Nat, IsFiniteSet(S), S # {}
  PROVE  HasEnds(S)
<1> DEFINE C == {T \in SUBSET S : T # {} /\ ~HasEnds(T)}
<1>1. SUFFICES ASSUME C # {} PROVE FALSE
  OBVIOUS
<1>2. PICK T \in C : \A U \in C : U \subseteq T => U = T
  <2>1. IsWellFoundedOn(StrictSubsetOrdering(S), SUBSET S)
    BY FS_StrictSubsetOrderingWellFounded, FS_FiniteSubsetsOfFinite
  <2>2. C \in SUBSET (SUBSET S)
    OBVIOUS
  <2> HIDE DEF C
  <2>3. PICK T \in C : \A U \in C : <<U, T>> \notin StrictSubsetOrdering(S)
    BY <1>1, <2>1, <2>2, WFMin
  <2> QED
    BY <2>2, <2>3 DEF StrictSubsetOrdering
<1>3. PICK x \in T : TRUE
  BY <1>2
<1>4. T \ {x} \notin C /\ T \subseteq Nat
  BY <1>2, <1>3
<1>5. CASE T \ {x} = {}
  BY <1>2, <1>3, <1>4, <1>5 DEF HasEnds
<1>6. CASE HasEnds(T \ {x})
  <2>1. PICK m \in T \ {x} : \A n \in T \ {x} : m >= n
    BY <1>6 DEF HasEnds
  <2>2. PICK l \in T \ {x} : \A n \in T \ {x} : l <= n
    BY <1>6 DEF HasEnds
  <2>3. \E k \in T : \A n \in T : k >= n
    <3>1. CASE x >= m
      BY <1>3, <1>4, <2>1, <3>1
    <3>2. CASE ~(x >= m)
      BY <1>3, <1>4, <2>1, <3>2
    <3> QED
      BY <3>1, <3>2
  <2>4. \E k \in T : \A n \in T : k <= n
    <3>1. CASE x <= l
      BY <1>3, <1>4, <2>2, <3>1
    <3>2. CASE ~(x <= l)
      BY <1>3, <1>4, <2>2, <3>2
    <3> QED
      BY <3>1, <3>2
  <2> QED
    BY <1>2, <2>3, <2>4 DEF HasEnds
<1> QED
  BY <1>2, <1>4, <1>5, <1>6

LEMMA EndsOf ==
  ASSUME NEW S \in SUBSET (Nat \ {0}), IsFiniteSet(S), S # {}
  PROVE  /\ Max(S) \in Nat \ {0} /\ Min(S) \in Nat \ {0}
         /\ \A n \in S : n \in Nat /\ Min(S) <= n /\ n <= Max(S)
         /\ Min(S) <= Max(S)
<1>1. HasEnds(S)
  BY FiniteHasEnds
<1>2. Max(S) \in S /\ \A n \in S : Max(S) >= n
  BY <1>1 DEF HasEnds, Max
<1>3. Min(S) \in S /\ \A n \in S : Min(S) <= n
  BY <1>1 DEF HasEnds, Min
<1> QED
  BY <1>2, <1>3

LEMMA EndsAre ==
  /\ Max(Limits) \in Nat \ {0} /\ Min(Limits) \in Nat \ {0} /\ Min(Limits) <= Max(Limits)
  /\ \A limit \in Limits : limit \in Nat /\ Min(Limits) <= limit /\ limit <= Max(Limits)
  /\ Max(Sizes) \in Nat \ {0}
  /\ \A bytes \in Sizes : bytes \in Nat /\ 1 <= bytes /\ bytes <= Max(Sizes)
  /\ FileBound \in Nat
BY AuditAssumption, EndsOf DEF FileBound

-----------------------------------------------------------------------------
(* What the calls of the command that appends rest on: the file it writes  *)
(* to is under the limit, and the one it rotates holds enough by itself.   *)
RotationInv ==
  /\ next = "write" => size < Max(Limits)
  /\ next \in {"remove", "rename"} => size >= Min(Limits)

(* A record has at least a byte.                                           *)
RecordsHaveBytes == Len(current) <= size /\ Len(rotated) <= rotatedSize

AuditInv ==
  AuditTypeOK /\ RotationInv /\ RecordsHaveBytes /\ LogBounded /\ LogEndsWithNewest

(* Where the records of the log are.                                       *)
LEMMA LogAt ==
  ASSUME NEW S, NEW r \in Seq(S), NEW c \in Seq(S)
  PROVE  /\ r \o c \in Seq(S) /\ Len(r \o c) = Len(r) + Len(c)
         /\ \A k \in 0..Len(c) - 1 : (r \o c)[Len(r \o c) - k] = c[Len(c) - k]
         /\ \A k \in Len(c)..Len(r \o c) - 1 :
              (r \o c)[Len(r \o c) - k] = r[Len(r) - (k - Len(c))]
OBVIOUS

(* The ages of a file, one record later.                                   *)
LEMMA OlderFile ==
  ASSUME NEW s \in Seq(Ages)
  PROVE  LET t == [k \in DOMAIN s |-> Older(s[k])]
         IN  t \in Seq(Ages) /\ Len(t) = Len(s) /\ \A k \in 1..Len(s) : t[k] = Older(s[k])
<1> DEFINE t == [k \in DOMAIN s |-> Older(s[k])]
<1>1. MaxAge \in Nat
  BY EndsAre DEF MaxAge, FileBound
<1>2. \A age \in Ages : Older(age) \in Ages
  BY <1>1 DEF Ages, Older
<1>3. t \in [1..Len(s) -> Ages]
  BY <1>2
<1>4. t \in Seq(Ages) /\ Len(t) = Len(s)
  BY <1>3
<1> QED
  BY <1>4

LEMMA InitAudit == Init => AuditInv
<1> SUFFICES ASSUME Init PROVE AuditInv
  OBVIOUS
<1>1. Log = <<>> /\ Len(Log) = 0
  BY DEF Init, Log
<1> QED
  BY <1>1, EndsAre DEF Init, AuditInv, AuditTypeOK, Ages, MaxAge, RotationInv,
                       RecordsHaveBytes, LogBounded, LogEndsWithNewest

(* The records of a log of two files, by their ages.                       *)
Aged(r, c) == \A k \in 0..Len(r \o c) - 1 : (r \o c)[Len(r \o c) - k] = k

LEMMA FilesAged ==
  ASSUME NEW r \in Seq(Ages), NEW c \in Seq(Ages), Aged(r, c)
  PROVE  Aged(<<>>, c) /\ Aged(c, <<>>)
<1>1. \A k \in 0..Len(c) - 1 : c[Len(c) - k] = k
  <2>1. Len(r \o c) = Len(r) + Len(c) /\ Len(r) \in Nat /\ Len(c) \in Nat
    BY LogAt
  <2>2. \A k \in 0..Len(c) - 1 : (r \o c)[Len(r \o c) - k] = c[Len(c) - k]
    BY LogAt
  <2>3. \A k \in 0..Len(r \o c) - 1 : (r \o c)[Len(r \o c) - k] = k
    BY DEF Aged
  <2>4. \A k \in 0..Len(c) - 1 : k \in 0..Len(r \o c) - 1
    BY <2>1
  <2> QED
    BY <2>2, <2>3, <2>4
<1>2. <<>> \o c = c /\ c \o <<>> = c
  OBVIOUS
<1> QED
  BY <1>1, <1>2 DEF Aged

(* One record later, every record is one older.                            *)
LEMMA LaterAged ==
  ASSUME NEW r \in Seq(Ages), NEW c \in Seq(Ages), Aged(r, c), Len(r) + Len(c) < MaxAge,
         NEW rest \in Seq(Ages), Len(rest) = Len(r),
         \A k \in 1..Len(r) : rest[k] = Older(r[k]),
         NEW before \in Seq(Ages), Len(before) = Len(c),
         \A k \in 1..Len(c) : before[k] = Older(c[k])
  PROVE  /\ Append(before, 0) \in Seq(Ages) /\ Len(Append(before, 0)) = Len(c) + 1
         /\ Aged(rest, Append(before, 0))
<1> DEFINE d == Append(before, 0)
           whole == rest \o d
           log == r \o c
<1>1. /\ Len(r) \in Nat /\ Len(c) \in Nat /\ MaxAge \in Nat /\ 0 \in Ages
  BY EndsAre DEF Ages, MaxAge
<1>2. /\ d \in Seq(Ages) /\ Len(d) = Len(c) + 1 /\ d[Len(c) + 1] = 0
      /\ \A k \in 1..Len(c) : d[k] = Older(c[k])
  BY <1>1
<1>3. /\ Len(log) = Len(r) + Len(c)
      /\ \A k \in 0..Len(log) - 1 : log[Len(log) - k] = k
  BY LogAt DEF Aged
<1>4. /\ \A k \in 0..Len(c) - 1 : log[Len(log) - k] = c[Len(c) - k]
      /\ \A k \in Len(c)..Len(log) - 1 : log[Len(log) - k] = r[Len(r) - (k - Len(c))]
  BY LogAt
<1>5. /\ Len(whole) = Len(rest) + Len(d)
      /\ \A k \in 0..Len(d) - 1 : whole[Len(whole) - k] = d[Len(d) - k]
      /\ \A k \in Len(d)..Len(whole) - 1 : whole[Len(whole) - k] = rest[Len(rest) - (k - Len(d))]
  BY <1>2, LogAt
<1> HIDE DEF d, whole, log
<1>6. \A k \in 0..Len(log) - 1 : Older(k) = k + 1
  BY <1>1, <1>3 DEF Older
<1>7. ASSUME NEW k \in 0..Len(whole) - 1 PROVE whole[Len(whole) - k] = k
  <2>1. CASE k = 0
    BY <1>1, <1>2, <1>5, <2>1
  <2>2. CASE k \in 1..Len(c)
    <3>1. k - 1 \in 0..Len(c) - 1 /\ k - 1 \in 0..Len(log) - 1
      BY <1>1, <1>3, <2>2
    <3>2. c[Len(c) - (k - 1)] = k - 1 /\ Older(k - 1) = k
      <4>1. log[Len(log) - (k - 1)] = k - 1 /\ Older(k - 1) = k - 1 + 1
        BY <1>3, <1>6, <3>1
      <4>2. log[Len(log) - (k - 1)] = c[Len(c) - (k - 1)]
        BY <1>4, <3>1
      <4> QED
        BY <4>1, <4>2
    <3>3. d[Len(d) - k] = Older(c[Len(c) - (k - 1)])
      <4>1. Len(d) - k = Len(c) - (k - 1) /\ Len(d) - k \in 1..Len(c)
        BY <1>1, <1>2, <2>2
      <4>2. d[Len(d) - k] = Older(c[Len(d) - k])
        BY <1>2, <4>1
      <4> QED
        BY <4>1, <4>2
    <3> QED
      BY <1>1, <1>2, <1>5, <2>2, <3>2, <3>3
  <2>3. CASE k > Len(c)
    <3>1. k - 1 \in Len(c)..Len(log) - 1 /\ k - 1 \in 0..Len(log) - 1
      BY <1>1, <1>2, <1>3, <1>5, <2>3
    <3>2. r[Len(r) - (k - 1 - Len(c))] = k - 1 /\ Older(k - 1) = k
      BY <1>3, <1>4, <1>6, <3>1
    <3>3. rest[Len(rest) - (k - Len(d))] = Older(r[Len(r) - (k - 1 - Len(c))])
      BY <1>1, <1>2, <1>3, <2>3, <3>1
    <3> QED
      BY <1>1, <1>2, <1>5, <2>3, <3>2, <3>3
  <2> QED
    BY <1>1, <2>1, <2>2, <2>3
<1> QED
  BY <1>2, <1>7 DEF Aged, d, whole

-----------------------------------------------------------------------------
LEMMA AuditStep ==
  AuditInv /\ [Next]_vars => AuditInv'
<1> SUFFICES ASSUME AuditInv, [Next]_vars PROVE AuditInv'
  OBVIOUS
<1> DEFINE top == Max(Limits)
           low == Min(Limits)
           largest == Max(Sizes)
<1>1. /\ top \in Nat \ {0} /\ low \in Nat \ {0} /\ largest \in Nat \ {0}
      /\ \A limit \in Limits : limit \in Nat /\ low <= limit /\ limit <= top
      /\ \A bytes \in Sizes : bytes \in Nat /\ 1 <= bytes /\ bytes <= largest
      /\ FileBound = top - 1 + largest /\ FileBound \in Nat
      /\ MaxAge = 2 * FileBound + 1 /\ MaxAge \in Nat /\ Ages = 0..MaxAge
  BY EndsAre DEF FileBound, MaxAge, Ages
<1>2. /\ current \in Seq(Ages) /\ Len(current) \in Nat /\ size \in Nat
      /\ rotated \in Seq(Ages) /\ Len(rotated) \in Nat /\ rotatedSize \in Nat
      /\ appended \in Nat /\ appended \in Ages
      /\ Len(current) <= size /\ Len(rotated) <= rotatedSize
      /\ size <= FileBound /\ rotatedSize <= FileBound
  BY <1>1 DEF AuditInv, AuditTypeOK, RecordsHaveBytes, LogBounded
<1>3. /\ next = "write" => size < top
      /\ next \in {"remove", "rename"} => size >= low
  BY DEF AuditInv, RotationInv
<1>4. Aged(rotated, current)
  BY DEF AuditInv, LogEndsWithNewest, Log, Aged
<1>5. Len(rotated) + Len(current) = appended \/ size + rotatedSize >= low
  BY <1>2, LogAt DEF AuditInv, LogEndsWithNewest, Log
<1> HIDE DEF top, low, largest
<1>6. ASSUME rotated' \in Seq(Ages), current' \in Seq(Ages), size' \in Nat, rotatedSize' \in Nat,
             Len(current') <= size', Len(rotated') <= rotatedSize',
             size' <= FileBound, rotatedSize' <= FileBound,
             next' \in {"idle", "remove", "rename", "write"}, appended' \in Ages,
             next' = "write" => size' < top,
             next' \in {"remove", "rename"} => size' >= low,
             Aged(rotated', current'),
             Len(rotated') + Len(current') = appended' \/ size' + rotatedSize' >= low
      PROVE  AuditInv'
  <2>1. AuditTypeOK' /\ RotationInv' /\ RecordsHaveBytes' /\ LogBounded'
    BY <1>6 DEF AuditTypeOK, RotationInv, RecordsHaveBytes, LogBounded, Ages, MaxAge,
                FileBound, top, low
  <2>2. Len(rotated' \o current') = Len(rotated') + Len(current')
    BY <1>6, LogAt
  <2>3. LogEndsWithNewest'
    BY <1>6, <2>2 DEF LogEndsWithNewest, Log, Aged, low
  <2> QED
    BY <2>1, <2>3 DEF AuditInv
<1>7. ASSUME NEW limit \in Limits, CheckSize(limit) PROVE AuditInv'
  <2>1. UNCHANGED <<current, size, rotated, rotatedSize, appended>>
    BY <1>7 DEF CheckSize, currentVars, rotatedVars
  <2>2. /\ next' \in {"remove", "write"}
        /\ next' = "write" => size < top
        /\ next' = "remove" => size >= low
    BY <1>1, <1>2, <1>7 DEF CheckSize
  <2> QED
    BY <1>2, <1>4, <1>5, <1>6, <2>1, <2>2
<1>8. CASE RemoveRotated
  <2>1. /\ UNCHANGED <<current, size, appended>>
        /\ next = "remove" /\ next' = "rename" /\ size >= low
    BY <1>3, <1>8 DEF RemoveRotated, currentVars
  <2>2. CASE rotated' = <<>> /\ rotatedSize' = 0
    BY <1>1, <1>2, <1>4, <1>6, <2>1, <2>2, FilesAged
  <2>3. CASE UNCHANGED rotatedVars
    BY <1>2, <1>4, <1>5, <1>6, <2>1, <2>3 DEF rotatedVars
  <2> QED
    BY <1>8, <2>2, <2>3 DEF RemoveRotated
<1>9. CASE Rename
  <2>1. /\ rotated' = current /\ rotatedSize' = size /\ current' = <<>> /\ size' = 0
        /\ appended' = appended /\ next' = "write" /\ size >= low
    BY <1>3, <1>9 DEF Rename
  <2> QED
    BY <1>1, <1>2, <1>4, <1>6, <2>1, FilesAged
<1>10. ASSUME NEW bytes \in Sizes, WriteRecord(bytes) PROVE AuditInv'
  <2> DEFINE before == [k \in DOMAIN current |-> Older(current[k])]
             rest == [k \in DOMAIN rotated |-> Older(rotated[k])]
  <2>1. /\ current' = Append(before, 0) /\ rotated' = rest /\ next = "write"
        /\ next' = "idle" /\ appended' = Older(appended)
        /\ size' = size + bytes /\ rotatedSize' = rotatedSize
    BY <1>10 DEF WriteRecord
  <2>2. /\ before \in Seq(Ages) /\ Len(before) = Len(current)
        /\ \A k \in 1..Len(current) : before[k] = Older(current[k])
    BY <1>2, OlderFile
  <2>3. /\ rest \in Seq(Ages) /\ Len(rest) = Len(rotated)
        /\ \A k \in 1..Len(rotated) : rest[k] = Older(rotated[k])
    BY <1>2, OlderFile
  <2> HIDE DEF before, rest
  <2>4. Len(rotated) + Len(current) < MaxAge
    BY <1>1, <1>2
  <2>5. /\ current' \in Seq(Ages) /\ Len(current') = Len(current) + 1
        /\ Aged(rotated', current')
    BY <1>2, <1>4, <2>1, <2>2, <2>3, <2>4, LaterAged
  <2>6. /\ size' \in Nat /\ Len(current') <= size' /\ size' <= FileBound
    BY <1>1, <1>2, <1>3, <2>1, <2>5
  <2>7. /\ appended' \in Ages
        /\ Len(rotated) + Len(current) = appended => Len(rotated) + Len(current') = appended'
    BY <1>1, <1>2, <2>1, <2>4, <2>5 DEF Older
  <2>8. size + rotatedSize >= low => size' + rotatedSize' >= low
    BY <1>1, <1>2, <2>1
  <2>9. rotated' \in Seq(Ages) /\ Len(rotated') = Len(rotated) /\ next' = "idle"
    BY <2>1, <2>3
  <2>10. Len(rotated') + Len(current') = appended' \/ size' + rotatedSize' >= low
    BY <1>5, <2>7, <2>8, <2>9
  <2> QED
    BY <1>2, <1>6, <2>1, <2>5, <2>6, <2>7, <2>9, <2>10
<1>11. ASSUME NEW bytes \in Sizes, TornWrite(bytes) PROVE AuditInv'
  <2>1. PICK written \in 1..bytes - 1 : size' = size + written
    BY <1>11 DEF TornWrite
  <2>2. /\ UNCHANGED <<current, rotated, rotatedSize, appended>>
        /\ next = "write" /\ next' = "idle"
    BY <1>11 DEF TornWrite, rotatedVars
  <2>3. /\ size' \in Nat /\ size <= size' /\ size' <= FileBound
    BY <1>1, <1>2, <1>3, <2>1, <2>2
  <2>4. size + rotatedSize >= low => size' + rotatedSize' >= low
    <3>1. low \in Nat /\ size \in Nat /\ rotatedSize \in Nat /\ rotatedSize' = rotatedSize
      BY <1>1, <1>2, <2>2
    <3>2. \A m, n, r, l \in Nat : m + r >= l /\ m <= n => n + r >= l
      OBVIOUS
    <3>3. size + rotatedSize >= low => size' + rotatedSize >= low
      BY <2>3, <3>1, <3>2
    <3> QED
      BY <3>1, <3>3
  <2>5. Len(current') <= size'
    BY <1>2, <2>2, <2>3
  <2> QED
    BY <1>2, <1>4, <1>5, <1>6, <2>2, <2>3, <2>4, <2>5
<1>12. CASE Fail
  <2>1. UNCHANGED <<current, size, rotated, rotatedSize, appended>> /\ next' = "idle"
    BY <1>12 DEF Fail, currentVars, rotatedVars
  <2> QED
    BY <1>2, <1>4, <1>5, <1>6, <2>1
<1>13. CASE UNCHANGED vars
  <2>1. UNCHANGED <<current, size, rotated, rotatedSize, appended, next>>
    BY <1>13 DEF vars, currentVars, rotatedVars
  <2> QED
    BY <1>2, <1>3, <1>4, <1>5, <1>6, <2>1 DEF AuditInv, AuditTypeOK
<1> QED
  BY <1>7, <1>8, <1>9, <1>10, <1>11, <1>12, <1>13 DEF Next

THEOREM AuditInvariant == Spec => []AuditInv
BY InitAudit, AuditStep, PTL DEF Spec

(* Neither file ever exceeds the largest limit by a whole record, whatever *)
(* the order of the limits and wherever Append fails, dies or is cut off   *)
(* in its write.                                                           *)
THEOREM LogStaysBounded == Spec => []LogBounded
<1>1. AuditInv => LogBounded
  BY DEF AuditInv
<1> QED
  BY <1>1, AuditInvariant, PTL

(* The log ends with the newest records, in their order and without a gap, *)
(* and holds all there are or as many bytes as the smallest limit: a       *)
(* rotation that is cut off after the old generation is removed, or after  *)
(* the rename, loses none of them.                                         *)
THEOREM LogKept == Spec => []LogEndsWithNewest
<1>1. AuditInv => LogEndsWithNewest
  BY DEF AuditInv
<1> QED
  BY <1>1, AuditInvariant, PTL
=============================================================================
