---------------------------- MODULE ManagedProofs ----------------------------
(***************************************************************************)
(* What the managed owner of a handle promises, proved for any number of   *)
(* callers and any match: no call is in the library when the handle is     *)
(* destroyed, and the two poison flags, of the owner and of the handle,    *)
(* say the same. The invariant counts: who is in the library holds a       *)
(* reference, a handle is destroyed only without references, and one       *)
(* caller at most is past the gate, so that nobody poisons the handle      *)
(* under another one's call.                                               *)
(***************************************************************************)
EXTENDS ManagedSession, TLAPS

Outside == {"idle", "waiting", "forgotten"}
Inside == {"entered", "usable", "native", "leaving"}

(* The parts of the invariant.                                             *)
Staged ==
  /\ pc \in [Caller -> Outside \cup Inside]
  /\ disposal \in {"live", "marked", "released", "done"}
  /\ \A c, d \in Caller : pc[c] \in Inside /\ pc[d] \in Inside => c = d

Counted ==
  /\ references = {c \in Caller : pc[c] = "native"}
  /\ destroyed => references = {} /\ disposal \in {"released", "done"}

Flagged ==
  /\ handle \in [session : {handle.session}, poisoned : BOOLEAN, broken : BOOLEAN]
  /\ failed \in BOOLEAN
  /\ failed <=> handle.poisoned
  /\ \A c \in Caller : pc[c] = "native" => ~handle.poisoned

MInv == Staged /\ Counted /\ Flagged

(* A call that was let in poisons the handle exactly if it says so.        *)
LEMMA PanicsArePoison ==
  ASSUME NEW h, h \in [session : {h.session}, poisoned : {FALSE}, broken : BOOLEAN],
         NEW r, NEW call \in Apply(h, r) \cup Look(h)
  PROVE  /\ call.handle \in [session : {call.handle.session}, poisoned : BOOLEAN,
                             broken : BOOLEAN]
         /\ call.status = "INTERNAL_PANIC" <=> call.handle.poisoned
<1> DEFINE Tells(k) ==
             /\ k.handle \in [session : {k.handle.session}, poisoned : BOOLEAN,
                              broken : BOOLEAN]
             /\ k.status = "INTERNAL_PANIC" <=> k.handle.poisoned
<1>1. /\ \A status : status # "INTERNAL_PANIC" => Tells(Fails(h, status))
      /\ Tells(Fails(Poison(h), "INTERNAL_PANIC"))
      /\ Tells(Panics(h))
  BY DEF Fails, Poison, Panics
<1>2. \A ss, t : Tells([handle |-> [h EXCEPT !.session = ss], status |-> "OK",
                        transition |-> t])
  OBVIOUS
<1>3. \A t : Tells([handle |-> h, status |-> "OK", transition |-> t])
  OBVIOUS
<1> HIDE DEF Tells
<1>4. \A k \in Mishaps(h) : Tells(k)
  BY <1>1 DEF Mishaps
<1>5. \A o : \A k \in Swap(h, o) \cup Faulted(h, o.session) : Tells(k)
  BY <1>1, <1>2 DEF Swap, Faulted
<1>6. \A k \in Look(h) : Tells(k)
  BY <1>1, <1>3, <1>4 DEF Look
<1>7. \A k \in Apply(h, r) : Tells(k)
  BY <1>4, <1>5 DEF Apply
<1>8. Tells(call)
  BY <1>6, <1>7
<1> QED
  BY <1>8 DEF Tells

-----------------------------------------------------------------------------
(* Every step keeps it.                                                    *)

LEMMA GateSteps ==
  ASSUME MInv, NEW c \in Caller, Call(c) \/ Admit(c) \/ Cancel(c) \/ Leave(c) \/ Use(c)
  PROVE  MInv'
<1>1. /\ UNCHANGED <<handle, references, destroyed, disposal, failed>>
      /\ pc \in [Caller -> Outside \cup Inside]
  BY DEF Call, Admit, Cancel, Leave, Use, native, owner, MInv, Staged
<1>2. /\ pc' \in [Caller -> Outside \cup Inside]
      /\ \A d \in Caller : pc'[d] = "native" <=> pc[d] = "native"
  BY <1>1 DEF Call, Admit, Cancel, Leave, Use, At, Outside, Inside
<1>3. \A d, e \in Caller : pc'[d] \in Inside /\ pc'[e] \in Inside => d = e
  <2>1. CASE Admit(c)
    <3>1. \A d \in Caller : pc[d] \notin Inside
      BY <2>1 DEF Admit, GateFree, Inside
    <3> QED
      BY <1>1, <2>1, <3>1 DEF Admit, At
  <2>2. CASE Call(c) \/ Cancel(c) \/ Leave(c) \/ Use(c)
    <3>1. \A d \in Caller : pc'[d] \in Inside => pc[d] \in Inside
      BY <1>1, <2>2 DEF Call, Cancel, Leave, Use, At, Inside
    <3> QED
      BY <3>1 DEF MInv, Staged
  <2> QED
    BY <2>1, <2>2
<1>4. Staged'
  BY <1>1, <1>2, <1>3 DEF MInv, Staged
<1>5. Counted'
  BY <1>1, <1>2 DEF MInv, Counted
<1>6. Flagged'
  BY <1>1, <1>2 DEF MInv, Flagged
<1> QED
  BY <1>4, <1>5, <1>6 DEF MInv

LEMMA ReferSteps ==
  ASSUME MInv, NEW c \in Caller, Refer(c)
  PROVE  MInv'
<1> DEFINE open == disposal \in {"live", "marked"}
<1>1. /\ UNCHANGED <<handle, destroyed, disposal>>
      /\ pc[c] = "usable"
      /\ pc \in [Caller -> Outside \cup Inside]
      /\ failed \in BOOLEAN
  BY DEF Refer, native, MInv, Staged, Flagged
<1>2. CASE open /\ ~handle.poisoned
  <2>1. /\ pc' = [pc EXCEPT ![c] = "native"]
        /\ references' = references \cup {c}
        /\ failed' = failed
    BY <1>2 DEF Refer
  <2>2. ~destroyed
    BY <1>2 DEF MInv, Counted
  <2>3. Staged'
    BY <1>1, <2>1 DEF MInv, Staged, Inside
  <2>4. Counted'
    BY <1>1, <2>1, <2>2 DEF MInv, Counted
  <2>5. Flagged'
    BY <1>1, <1>2, <2>1 DEF MInv, Flagged
  <2> QED
    BY <2>3, <2>4, <2>5 DEF MInv
<1>3. CASE ~(open /\ ~handle.poisoned)
  <2>1. /\ pc' = [pc EXCEPT ![c] = "leaving"]
        /\ references' = references
        /\ failed' = (failed \/ open)
    BY <1>3 DEF Refer
  <2>2. failed' <=> failed
    BY <1>1, <1>3, <2>1 DEF MInv, Flagged
  <2>3. Staged'
    BY <1>1, <2>1 DEF MInv, Staged, Inside
  <2>4. Counted'
    BY <1>1, <2>1 DEF MInv, Counted
  <2>5. Flagged'
    BY <1>1, <2>1, <2>2 DEF MInv, Flagged
  <2> QED
    BY <2>3, <2>4, <2>5 DEF MInv
<1> QED
  BY <1>2, <1>3

LEMMA FinishSteps ==
  ASSUME MInv, NEW c \in Caller, NEW r, NEW call \in Apply(handle, r) \cup Look(handle),
         Finish(c, call)
  PROVE  MInv'
<1>1. /\ pc[c] = "native"
      /\ pc' = [pc EXCEPT ![c] = "leaving"]
      /\ handle' = call.handle
      /\ references' = references \ {c}
      /\ destroyed' = (destroyed \/ (disposal \in {"released", "done"} /\ references' = {}))
      /\ failed' = (failed \/ call.status = "INTERNAL_PANIC")
      /\ disposal' = disposal
  BY DEF Finish, At
<1>2. handle \in [session : {handle.session}, poisoned : {FALSE}, broken : BOOLEAN]
  BY <1>1 DEF MInv, Flagged
<1>3. /\ handle' \in [session : {handle'.session}, poisoned : BOOLEAN, broken : BOOLEAN]
      /\ call.status = "INTERNAL_PANIC" <=> handle'.poisoned
  BY <1>1, <1>2, PanicsArePoison
<1>4. ~failed
  BY <1>2 DEF MInv, Flagged
<1>5. pc \in [Caller -> Outside \cup Inside]
  BY DEF MInv, Staged
<1>6. \A d \in Caller : pc'[d] # "native"
  BY <1>1, <1>5 DEF MInv, Staged, Inside
<1>7. Staged'
  BY <1>1, <1>5 DEF MInv, Staged, Inside
<1>8. Counted'
  BY <1>1, <1>5, <1>6 DEF MInv, Counted
<1>9. Flagged'
  BY <1>1, <1>3, <1>4, <1>6 DEF Flagged
<1> QED
  BY <1>7, <1>8, <1>9 DEF MInv

LEMMA DisposalSteps ==
  ASSUME MInv, Mark \/ CloseHandle \/ DropGate
  PROVE  MInv'
<1>1. /\ UNCHANGED <<handle, references, failed>>
      /\ pc \in [Caller -> Outside \cup Inside]
  BY DEF Mark, CloseHandle, DropGate, native, MInv, Staged
<1>2. /\ pc' \in [Caller -> Outside \cup Inside]
      /\ \A c \in Caller : /\ pc'[c] = "native" <=> pc[c] = "native"
                           /\ pc'[c] \in Inside => pc[c] \in Inside
  BY <1>1 DEF Mark, CloseHandle, DropGate, Outside, Inside
<1>3. /\ disposal' \in {"live", "marked", "released", "done"}
      /\ destroyed' => references' = {} /\ disposal' \in {"released", "done"}
  <2>1. CASE Mark
    BY <1>1, <2>1 DEF Mark, MInv, Counted
  <2>2. CASE CloseHandle
    <3>1. /\ disposal' = "released"
          /\ destroyed' <=> (destroyed \/ references = {})
      BY <2>2 DEF CloseHandle
    <3> QED
      BY <1>1, <3>1 DEF MInv, Counted
  <2>3. CASE DropGate
    BY <1>1, <2>3 DEF DropGate, MInv, Counted
  <2> QED
    BY <2>1, <2>2, <2>3
<1>4. Staged' /\ Counted'
  BY <1>1, <1>2, <1>3 DEF MInv, Staged, Counted
<1>5. Flagged'
  BY <1>1, <1>2 DEF MInv, Flagged
<1> QED
  BY <1>4, <1>5 DEF MInv

(* The gate admits one, references are counted, and the flags agree.       *)
THEOREM OwnerIsSound == Spec => []MInv
<1>1. Init => MInv
  <2> SUFFICES ASSUME Init PROVE MInv
    OBVIOUS
  <2>1. Staged
    BY DEF Init, Staged, Outside, Inside
  <2>2. Counted
    BY DEF Init, Counted
  <2>3. Flagged
    BY DEF Init, Flagged, NewHandle
  <2> QED
    BY <2>1, <2>2, <2>3 DEF MInv
<1>2. MInv /\ [Next]_vars => MInv'
  <2> SUFFICES ASSUME MInv, [Next]_vars PROVE MInv'
    OBVIOUS
  <2>1. CASE UNCHANGED vars
    BY <2>1 DEF vars, MInv, Staged, Counted, Flagged
  <2>2. ASSUME NEW c \in Caller,
               Call(c) \/ Admit(c) \/ Cancel(c) \/ Leave(c) \/ Use(c)
        PROVE  MInv'
    BY <2>2, GateSteps
  <2>3. ASSUME NEW c \in Caller, Refer(c)
        PROVE  MInv'
    BY <2>3, ReferSteps
  <2>4. ASSUME NEW c \in Caller, Mutate(c)
        PROVE  MInv'
    <3>1. PICK r \in Session!Requests \cup DOMAIN answered :
            \E call \in Apply(handle, r) : Finish(c, call)
      BY <2>4 DEF Mutate
    <3> QED
      BY <3>1, FinishSteps
  <2>5. ASSUME NEW c \in Caller, Read(c)
        PROVE  MInv'
    BY <2>5, FinishSteps DEF Read
  <2>6. CASE Mark \/ CloseHandle \/ DropGate
    BY <2>6, DisposalSteps
  <2> QED
    BY <2>1, <2>2, <2>3, <2>4, <2>5, <2>6 DEF Next
<1> QED
  BY <1>1, <1>2, PTL DEF Spec

(* Dispose does not wait for the calls that run, but the destructor does   *)
(* (CLIENT_SPEC.md:797, LocalMatchSession.cs:252).                         *)
THEOREM DestructorWaits == Spec => []NoCallOnDestroyed
<1>1. MInv => NoCallOnDestroyed
  BY DEF MInv, Counted, NoCallOnDestroyed
<1> QED
  BY <1>1, OwnerIsSound, PTL

(* The owner gives a match up exactly when the library does                *)
(* (NativeStatus.cs:56).                                                   *)
THEOREM OneVerdict == Spec => []FlagsAgree
<1>1. MInv => FlagsAgree
  BY DEF MInv, Flagged, FlagsAgree
<1> QED
  BY <1>1, OwnerIsSound, PTL

=============================================================================
