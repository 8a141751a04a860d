----------------------------- MODULE HandlePlay -----------------------------
(***************************************************************************)
(* A handle under callers that do not wait for one another: the situation  *)
(* its mutex is there for (lib.rs:92). A call reads the poison flag, waits *)
(* for the lock, and does the rest of its work under the lock.             *)
(***************************************************************************)
EXTENDS NativeHandle

CONSTANTS
  Caller,   \* threads calling into the library
  Asked     \* the <<kind, slot>> pairs they ask for

VARIABLES
  handle,
  pc,        \* pc[c]: "idle", "checked" (waits for the lock) or "inside"
  reply,     \* reply[c]: the status and transition of c's last call
  answered   \* history: the first receipt each request was given

vars == <<handle, pc, reply, answered>>

Session == INSTANCE SessionPlay WITH session <- handle.session

Reply(status, transition) == [status |-> status, transition |-> transition]

Refusal == Reply("INTERNAL_PANIC", NoTransition)

Init ==
  /\ handle = NewHandle(NewSession(Start(InitialState)))
  /\ pc = [c \in Caller |-> "idle"]
  /\ reply = [c \in Caller |-> Reply("OK", NoTransition)]
  /\ answered = [r \in {} |-> r]

(* lock_handle(), first half: a poisoned handle is refused at once.        *)
Check(c) ==
  /\ pc[c] = "idle"
  /\ IF handle.poisoned
       THEN reply' = [reply EXCEPT ![c] = Refusal] /\ UNCHANGED pc
       ELSE pc' = [pc EXCEPT ![c] = "checked"] /\ UNCHANGED reply
  /\ UNCHANGED <<handle, answered>>

(* lock_handle(), second half: the flag is not read again.                 *)
Lock(c) ==
  /\ pc[c] = "checked"
  /\ \A other \in Caller : pc[other] # "inside"
  /\ IF handle.broken
       THEN /\ handle' = Poison(handle)
            /\ reply' = [reply EXCEPT ![c] = Refusal]
            /\ pc' = [pc EXCEPT ![c] = "idle"]
       ELSE /\ pc' = [pc EXCEPT ![c] = "inside"]
            /\ UNCHANGED <<handle, reply>>
  /\ UNCHANGED answered

Return(c, call) ==
  /\ handle' = call.handle
  /\ reply' = [reply EXCEPT ![c] = Reply(call.status, call.transition)]
  /\ pc' = [pc EXCEPT ![c] = "idle"]

(* db_sim_match_apply and db_sim_match_timeout. r.id is new to the ledger  *)
(* exactly if this call made the request's first receipt.                  *)
Mutate(c) ==
  /\ pc[c] = "inside"
  /\ \E r \in Session!Requests \cup DOMAIN answered :
       \E call \in Apply(handle, r) :
         LET before == DOMAIN handle.session.ledger
             after  == DOMAIN call.handle.session.ledger
         IN  /\ Return(c, call)
             /\ answered' = IF r.id \in after \ before
                              THEN [q \in DOMAIN answered \cup {r} |->
                                      IF q = r THEN call.transition ELSE answered[q]]
                              ELSE answered

Read(c) ==
  /\ pc[c] = "inside"
  /\ \E call \in Look(handle) : Return(c, call)
  /\ UNCHANGED answered

Next == \E c \in Caller : Check(c) \/ Lock(c) \/ Mutate(c) \/ Read(c)

Spec == Init /\ [][Next]_vars

-----------------------------------------------------------------------------
(* A match changes only in a call that returns OK with the very receipt    *)
(* that was recorded: no call that could not produce its response, for     *)
(* whatever reason, has changed anything (lib.rs:275).                     *)
ChangesAreReturned ==
  [][handle'.session # handle.session =>
       \E c \in Caller : \E id \in DOMAIN handle'.session.ledger :
         /\ pc[c] = "inside"
         /\ id \notin DOMAIN handle.session.ledger
         /\ reply'[c] =
              Reply("OK", handle'.session.ledger[id].transition)]_vars

(* To its callers a handle is a session that may stop answering: every     *)
(* property of a session's steps holds behind a handle.                    *)
ImplementsSession == Session!Spec

=============================================================================
