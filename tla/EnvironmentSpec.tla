---------------------------- MODULE EnvironmentSpec ----------------------------
(***************************************************************************)
(* What cagent promises of environments, with no process, lock or file in  *)
(* sight: every step is atomic and touches one environment.                *)
(*                                                                         *)
(*   - a UUID belongs to one name for ever, a name has one UUID at a time; *)
(*   - only the container of a registered environment is created, started  *)
(*     or entered, and a container keeps its specification for life;       *)
(*   - a session has its environment to itself: while it is open nobody    *)
(*     creates, starts or removes the container or opens another one;      *)
(*   - a running container is never removed;                               *)
(*   - raw runs live on UUIDs that belong to no name.                      *)
(***************************************************************************)
CONSTANTS Names, Ids, Specs, RawSpec, Users, NoName, NoId, NoSpec

VARIABLES
  registry,  \* name -> its UUID
  owner,     \* UUID -> the name it was claimed for
  status,    \* UUID -> "absent", "stopped" or "running"
  spec,      \* UUID -> what its container was created from
  session    \* user -> the environment of the open session

vars == <<registry, owner, status, spec, session>>

Init ==
  /\ registry = [n \in Names |-> NoId]
  /\ owner = [i \in Ids |-> NoName]
  /\ status = [i \in Ids |-> "absent"]
  /\ spec = [i \in Ids |-> NoSpec]
  /\ session = [u \in Users |-> NoId]

IsRegistered(i) == \E n \in Names : registry[n] = i
InUse(i) == \E u \in Users : session[u] = i

-----------------------------------------------------------------------------
Claim(n, i) ==
  /\ owner[i] = NoName
  /\ status[i] = "absent"
  /\ owner' = [owner EXCEPT ![i] = n]
  /\ UNCHANGED <<registry, status, spec, session>>

Register(n, i) ==
  /\ registry[n] = NoId
  /\ owner[i] = n
  /\ registry' = [registry EXCEPT ![n] = i]
  /\ UNCHANGED <<owner, status, spec, session>>

Forget(n) ==
  /\ registry' = [registry EXCEPT ![n] = NoId]
  /\ UNCHANGED <<owner, status, spec, session>>

Create(i, m) ==
  /\ IsRegistered(i)
  /\ ~InUse(i)
  /\ status[i] = "absent"
  /\ status' = [status EXCEPT ![i] = "stopped"]
  /\ spec' = [spec EXCEPT ![i] = m]
  /\ UNCHANGED <<registry, owner, session>>

Start(i) ==
  /\ IsRegistered(i)
  /\ ~InUse(i)
  /\ status[i] = "stopped"
  /\ status' = [status EXCEPT ![i] = "running"]
  /\ UNCHANGED <<registry, owner, spec, session>>

Stop(i) ==
  /\ owner[i] # NoName
  /\ status[i] = "running"
  /\ status' = [status EXCEPT ![i] = "stopped"]
  /\ UNCHANGED <<registry, owner, spec, session>>

Remove(i) ==
  /\ owner[i] # NoName
  /\ ~InUse(i)
  /\ status[i] = "stopped"
  /\ status' = [status EXCEPT ![i] = "absent"]
  /\ spec' = [spec EXCEPT ![i] = NoSpec]
  /\ UNCHANGED <<registry, owner, session>>

Open(u, i) ==
  /\ session[u] = NoId
  /\ IsRegistered(i)
  /\ ~InUse(i)
  /\ session' = [session EXCEPT ![u] = i]
  /\ UNCHANGED <<registry, owner, status, spec>>

Close(u) ==
  /\ session' = [session EXCEPT ![u] = NoId]
  /\ UNCHANGED <<registry, owner, status, spec>>

RawStart(i) ==
  /\ owner[i] = NoName
  /\ status[i] = "absent"
  /\ status' = [status EXCEPT ![i] = "running"]
  /\ spec' = [spec EXCEPT ![i] = RawSpec]
  /\ UNCHANGED <<registry, owner, session>>

RawEnd(ended) ==
  /\ \A i \in ended : owner[i] = NoName
  /\ status' = [i \in Ids |-> IF i \in ended THEN "absent" ELSE status[i]]
  /\ spec' = [i \in Ids |-> IF i \in ended THEN NoSpec ELSE spec[i]]
  /\ UNCHANGED <<registry, owner, session>>

-----------------------------------------------------------------------------
Next ==
  \/ \E n \in Names : Forget(n)
  \/ \E n \in Names, i \in Ids : Claim(n, i) \/ Register(n, i)
  \/ \E i \in Ids, m \in Specs : Create(i, m)
  \/ \E i \in Ids : Start(i) \/ Stop(i) \/ Remove(i) \/ RawStart(i)
  \/ \E ended \in SUBSET Ids : RawEnd(ended)
  \/ \E u \in Users : Close(u)
  \/ \E u \in Users, i \in Ids : Open(u, i)

Spec == Init /\ [][Next]_vars
=============================================================================
