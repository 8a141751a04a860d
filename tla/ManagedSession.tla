--------------------------- MODULE ManagedSession ---------------------------
(***************************************************************************)
(* The managed owner of a handle (LocalMatchSession.cs, MatchSafeHandle.cs)*)
(* under several callers and one caller that disposes it. A call waits for *)
(* the gate, looks at the flags, enters the native library with a counted  *)
(* reference to the handle, and gives the gate back. Dispose takes neither *)
(* the gate nor notice of it.                                              *)
(*                                                                         *)
(* Gate and reference count are those of .NET: SemaphoreSlim admits one    *)
(* waiter at a time (here: any), forgets its waiters when it is disposed   *)
(* and then refuses WaitAsync and Release; a SafeHandle that is disposed   *)
(* refuses new references and runs ReleaseHandle when the last one is gone.*)
(***************************************************************************)
EXTENDS NativeHandle

CONSTANTS
  Caller,
  Asked       \* the <<kind, slot>> pairs they ask for

VARIABLES
  handle,     \* the native handle
  pc,         \* pc[c]: where c's call is: idle, waiting (for the gate), entered,
              \*   usable (flags looked at), native, leaving, or forgotten
  result,     \* result[c]: how c's last call ended
  references, \* the callers that hold a reference to the handle
  destroyed,  \* db_sim_match_destroy has run
  failed,     \* _poisoned
  disposal,   \* how far Dispose has got: live, marked, released, done
  answered    \* history: the first receipt each request was given

native == <<handle, answered>>
owner == <<references, destroyed, disposal>>
vars == <<handle, pc, result, references, destroyed, failed, disposal, answered>>

Session == INSTANCE SessionPlay WITH session <- handle.session

Init ==
  /\ handle = NewHandle(NewSession(Start(InitialState)))
  /\ pc = [c \in Caller |-> "idle"]
  /\ result = [c \in Caller |-> "OK"]
  /\ references = {}
  /\ destroyed = FALSE
  /\ failed = FALSE
  /\ disposal = "live"
  /\ answered = [r \in {} |-> r]

-----------------------------------------------------------------------------
(* The gate (SemaphoreSlim).                                               *)

GateGone == disposal = "done"

GateFree == \A c \in Caller : pc[c] \in {"idle", "waiting", "forgotten"}

At(c, from, to) == pc[c] = from /\ pc' = [pc EXCEPT ![c] = to]

Ends(c, how) == result' = [result EXCEPT ![c] = how]

(* A waiter that comes after the gate was disposed gets an exception.      *)
Call(c) ==
  /\ \/ GateGone /\ pc[c] = "idle" /\ Ends(c, "Disposed") /\ UNCHANGED pc
     \/ ~GateGone /\ At(c, "idle", "waiting") /\ UNCHANGED result
  /\ UNCHANGED <<native, owner, failed>>

Admit(c) ==
  /\ GateFree /\ ~GateGone
  /\ At(c, "waiting", "entered")
  /\ UNCHANGED <<native, owner, failed, result>>

(* The cancellation token ends the waiting, never a call that was admitted.*)
Cancel(c) ==
  /\ At(c, "waiting", "idle")
  /\ Ends(c, "Cancelled")
  /\ UNCHANGED <<native, owner, failed>>

LeaveOnSuccessBug(c) ==
  /\ result[c] = "OK"
  /\ At(c, "leaving", "idle")
  /\ IF GateGone THEN Ends(c, "Disposed") ELSE UNCHANGED result
  /\ UNCHANGED <<native, owner, failed>>

(* finally: the gate is released; if it is gone, the exception takes the   *)
(* place of whatever the call had to say.                                  *)
Leave(c) ==
  /\ At(c, "leaving", "idle")
  /\ IF GateGone THEN Ends(c, "Disposed") ELSE UNCHANGED result
  /\ UNCHANGED <<native, owner, failed>>

-----------------------------------------------------------------------------
(* The call (WithBytesAsync, WithoutBytesAsync, TerrainAsync).             *)

(* ThrowIfUnusable().                                                      *)
Use(c) ==
  /\ \/ /\ disposal = "live" /\ ~failed
        /\ At(c, "entered", "usable")
        /\ UNCHANGED result
     \/ /\ disposal # "live" \/ failed
        /\ At(c, "entered", "leaving")
        /\ Ends(c, IF disposal # "live" THEN "Disposed" ELSE "INTERNAL_PANIC")
  /\ UNCHANGED <<native, owner, failed>>

ReferRawBug(c) ==
  /\ At(c, "usable", "native")
  /\ UNCHANGED <<native, owner, failed, result>>

(* The marshaller takes a reference, unless the handle is closed by now.   *)
(* The library looks at its own poison flag (lock_handle) before anything  *)
(* else.                                                                   *)
Refer(c) ==
  /\ pc[c] = "usable"
  /\ LET open    == disposal \in {"live", "marked"}
         refused == IF open THEN "INTERNAL_PANIC" ELSE "Disposed"
     IN  IF open /\ ~handle.poisoned
           THEN /\ pc' = [pc EXCEPT ![c] = "native"]
                /\ references' = references \cup {c}
                /\ UNCHANGED <<result, failed>>
           ELSE /\ pc' = [pc EXCEPT ![c] = "leaving"]
                /\ Ends(c, refused)
                /\ failed' = (failed \/ open)
                /\ UNCHANGED references
  /\ UNCHANGED <<native, destroyed, disposal>>

FinishForgivingBug(c, call) ==
  /\ At(c, "native", "leaving")
  /\ handle' = call.handle
  /\ Ends(c, call.status)
  /\ references' = references \ {c}
  /\ destroyed' = (destroyed \/ (disposal \in {"released", "done"} /\ references' = {}))
  /\ UNCHANGED <<failed, disposal>>

(* The native call ends, the reference goes, and with the last reference   *)
(* to a closed handle the handle; Check() remembers a poisoned handle.     *)
Finish(c, call) ==
  /\ At(c, "native", "leaving")
  /\ handle' = call.handle
  /\ Ends(c, call.status)
  /\ references' = references \ {c}
  /\ destroyed' = (destroyed \/ (disposal \in {"released", "done"} /\ references' = {}))
  /\ failed' = (failed \/ call.status = "INTERNAL_PANIC")
  /\ UNCHANGED disposal

Mutate(c) ==
  \E r \in Session!Requests \cup DOMAIN answered :
    \E call \in Apply(handle, r) :
      /\ Finish(c, call)
      /\ answered' =
           IF r.id \in DOMAIN handle'.session.ledger \ DOMAIN handle.session.ledger
             THEN [q \in DOMAIN answered \cup {r} |->
                     IF q = r THEN call.transition ELSE answered[q]]
             ELSE answered

Read(c) ==
  /\ \E call \in Look(handle) : Finish(c, call)
  /\ UNCHANGED answered

-----------------------------------------------------------------------------
(* Dispose(), in its three steps; a second Dispose returns at once.        *)

Mark ==
  /\ disposal = "live"
  /\ disposal' = "marked"
  /\ UNCHANGED <<native, pc, result, failed, references, destroyed>>

(* _handle.Dispose().                                                      *)
CloseHandle ==
  /\ disposal = "marked"
  /\ disposal' = "released"
  /\ destroyed' = (destroyed \/ references = {})
  /\ UNCHANGED <<native, pc, result, failed, references>>

(* _gate.Dispose(): those who wait are never woken.                        *)
DropGate ==
  /\ disposal = "released"
  /\ disposal' = "done"
  /\ pc' = [c \in Caller |-> IF pc[c] = "waiting" THEN "forgotten" ELSE pc[c]]
  /\ UNCHANGED <<native, result, failed, references, destroyed>>

Next ==
  \/ \E c \in Caller :
       \/ Call(c) \/ Admit(c) \/ Cancel(c)
       \/ Use(c) \/ Refer(c) \/ Mutate(c) \/ Read(c) \/ Leave(c)
  \/ Mark \/ CloseHandle \/ DropGate

Spec == Init /\ [][Next]_vars

(* Waiters are woken in the order they came, so none is overtaken for      *)
(* ever; tasks run; native calls return. Nobody is obliged to call.        *)
Fairness ==
  /\ \A c \in Caller :
       /\ SF_vars(Admit(c))
       /\ WF_vars(Use(c)) /\ WF_vars(Refer(c)) /\ WF_vars(Leave(c))
       /\ []<>(pc[c] # "native")
  /\ WF_vars(CloseHandle) /\ WF_vars(DropGate)

FairSpec == Spec /\ Fairness

-----------------------------------------------------------------------------
(* However disposal and calls interleave, no call runs in the library      *)
(* after the handle was destroyed: Dispose does not wait for the call, but *)
(* the destructor does (CLIENT_SPEC.md:797, LocalMatchSession.cs:252).     *)
NoCallOnDestroyed == \A c \in Caller : pc[c] = "native" => ~destroyed

(* Between calls the managed flag says of the handle exactly what the      *)
(* handle says of itself: no match is given up that the library would      *)
(* still play, and none is used that it gave up (NativeStatus.cs:56).      *)
FlagsAgree == GateFree => (failed <=> handle.poisoned)

(* The gate is never lost: only disposal can strand a caller, whatever     *)
(* calls end in (LocalMatchSession.cs:441).                                *)
CallersAreServed ==
  \A c \in Caller : pc[c] # "idle" ~> (pc[c] = "idle" \/ disposal # "live")

=============================================================================
