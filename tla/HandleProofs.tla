---------------------------- MODULE HandleProofs ----------------------------
(***************************************************************************)
(* What a handle promises the threads that call into the library, proved   *)
(* for any number of callers, any match and any ledger: whatever happens   *)
(* around a call, the session behind the handle takes a session's steps or *)
(* none (ImplementsSession), and it changes only in a call that returns    *)
(* the receipt (ChangesAreReturned). The argument is the order of things   *)
(* in lib.rs:275: the clone answers, the response is written, and only     *)
(* then the clone takes the place of the session.                          *)
(***************************************************************************)
EXTENDS HandlePlay, CallProofs

-----------------------------------------------------------------------------
(* The session of SessionPlay, instantiated, is the one behind the handle. *)
(* The prover takes the definitions that come with an instance for others  *)
(* than those of the same name that came with MatchSession; they agree,    *)
(* from the bottom up.                                                     *)

LEMMA SameTurnCycle ==
  ASSUME NEW s
  PROVE  /\ \A p : Session!TickStatuses(s, p) = TickStatuses(s, p)
         /\ Session!LeaveVictoryCheck(s) = LeaveVictoryCheck(s)
         /\ Session!OpenTurn(s) = OpenTurn(s)
         /\ Session!BeginMatch(s) = BeginMatch(s)
<1>1. \A S : Session!First(S) = First(S)
  BY DEF First, Session!First
<1>2. \A t : /\ Session!Living(t) = Living(t)
             /\ Session!NextActivePlayer(t) = NextActivePlayer(t)
  BY <1>1 DEF Living, Session!Living, NextActivePlayer, Session!NextActivePlayer
<1>3. \A t, reason : Session!EndTurn(t, reason) = EndTurn(t, reason)
  BY <1>2 DEF EndTurn, Session!EndTurn
<1>4. \A t : Session!CheckAndFinalize(t) = CheckAndFinalize(t)
  <2>1. \A t : Session!Decided(t) <=> Decided(t)
    BY <1>2 DEF Decided, Session!Decided
  <2> QED
    BY <1>2, <2>1 DEF CheckAndFinalize, Session!CheckAndFinalize
<1>5. \A t, gone : Session!Eliminate(t, gone) = Eliminate(t, gone)
  BY DEF Eliminate, Session!Eliminate
<1>6. Session!LeaveVictoryCheck(s) = LeaveVictoryCheck(s)
  BY <1>2, <1>3, <1>4, <1>5 DEF LeaveVictoryCheck, Session!LeaveVictoryCheck
<1> QED
  BY <1>1, <1>2, <1>6 DEF TickStatuses, Session!TickStatuses, OpenTurn,
     Session!OpenTurn, BeginMatch, Session!BeginMatch

LEMMA SameCalls ==
  ASSUME NEW s, NEW p
  PROVE  /\ \A travelled, off, pit :
              Session!SubmitMove(s, p, travelled, off, pit)
                = SubmitMove(s, p, travelled, off, pit)
         /\ \A rises : Session!SubmitJump(s, p, rises) = SubmitJump(s, p, rises)
         /\ \A c, fx, pit :
              Session!SubmitAbility(s, c, fx, pit) = SubmitAbility(s, c, fx, pit)
         /\ Session!PassTurn(s) = PassTurn(s)
         /\ Session!TimeOutTurn(s) = TimeOutTurn(s)
         /\ \A c : Session!Valid(s, c) <=> Valid(s, c)
         /\ Session!Start(s) = Start(s)
<1>1. \A t : /\ Session!Living(t) = Living(t)
             /\ Session!AcceptsAbility(t) <=> AcceptsAbility(t)
             /\ Session!MaxLaunchPower(t) = MaxLaunchPower(t)
  BY DEF Living, Session!Living, AcceptsAbility, Session!AcceptsAbility,
         MaxLaunchPower, Session!MaxLaunchPower
<1>2. \A t : Session!Decided(t) <=> Decided(t)
  BY <1>1 DEF Decided, Session!Decided
<1>3. \A t, c : Session!Valid(t, c) <=> Valid(t, c)
  BY <1>1 DEF Valid, Session!Valid
<1>4. \A t, pit : Session!Settle(t, pit) = Settle(t, pit)
  BY <1>1 DEF Settle, Session!Settle
<1>5. \A t, reason, pit : Session!FinishTurn(t, reason, pit) = FinishTurn(t, reason, pit)
  <2>1. \A t : Session!RunCycle(t) = RunCycle(t)
    BY SameTurnCycle DEF RunCycle, Session!RunCycle
  <2> QED
    BY <1>4, <2>1, SameTurnCycle DEF FinishTurn, Session!FinishTurn
<1>6. \A t, q, pit : Session!AfterMoving(t, q, pit) = AfterMoving(t, q, pit)
  BY <1>1, <1>4, <1>5 DEF AfterMoving, Session!AfterMoving
<1>7. /\ \A t, q, travelled, off :
           Session!Walk(t, q, travelled, off) = Walk(t, q, travelled, off)
      /\ \A t, q, rises : Session!Jump(t, q, rises) = Jump(t, q, rises)
      /\ \A t, q : Session!MayMove(t, q) <=> MayMove(t, q)
  BY <1>1 DEF Walk, Session!Walk, Jump, Session!Jump, MayMove, Session!MayMove
<1>8. \A travelled, off, pit :
        Session!SubmitMove(s, p, travelled, off, pit) = SubmitMove(s, p, travelled, off, pit)
  BY <1>6, <1>7 DEF SubmitMove, Session!SubmitMove
<1>9. \A rises : Session!SubmitJump(s, p, rises) = SubmitJump(s, p, rises)
  BY <1>6, <1>7 DEF SubmitJump, Session!SubmitJump
<1>10. \A c, fx, pit : Session!SubmitAbility(s, c, fx, pit) = SubmitAbility(s, c, fx, pit)
  <2>1. \A charge, c, fx : Session!AwardGauge(charge, c, fx) = AwardGauge(charge, c, fx)
    BY DEF AwardGauge, Session!AwardGauge
  <2>2. \A t, c, fx : Session!Resolve(t, c, fx) = Resolve(t, c, fx)
    BY <2>1 DEF Resolve, Session!Resolve
  <2> QED
    BY <1>1, <1>2, <1>3, <1>4, <1>5, <2>2 DEF SubmitAbility, Session!SubmitAbility
<1>11. Session!PassTurn(s) = PassTurn(s) /\ Session!TimeOutTurn(s) = TimeOutTurn(s)
  BY <1>5 DEF PassTurn, Session!PassTurn, TimeOutTurn, Session!TimeOutTurn
<1>12. Session!Start(s) = Start(s)
  BY <1>4, SameTurnCycle DEF Start, Session!Start
<1> QED
  BY <1>3, <1>8, <1>9, <1>10, <1>11, <1>12

LEMMA SameAccepts ==
  ASSUME NEW s, NEW r
  PROVE  Session!Accepts(s, r) = Accepts(s, r)
<1> DEFINE c == AbilityOf(r)
           c2 == Session!AbilityOf(r)
           moves == {SubmitMove(s, r.player, travelled, off, pit) :
                       travelled \in 0..WalkBudget(s), off \in BOOLEAN,
                       pit \in SUBSET {r.player}}
           moves2 == {Session!SubmitMove(s, r.player, travelled, off, pit) :
                        travelled \in 0..Session!WalkBudget(s), off \in BOOLEAN,
                        pit \in SUBSET {r.player}}
           jumps == {SubmitJump(s, r.player, rises) : rises \in BOOLEAN}
           jumps2 == {Session!SubmitJump(s, r.player, rises) : rises \in BOOLEAN}
           shots == UNION {{SubmitAbility(s, c, fx, pit) : pit \in SUBSET fx.lost} :
                             fx \in Effects(s, c)}
           shots2 == UNION {{Session!SubmitAbility(s, c2, fx, pit) :
                               pit \in SUBSET fx.lost} : fx \in Session!Effects(s, c2)}
<1>1. Session!WalkBudget(s) = WalkBudget(s) /\ c2 = c
  BY DEF WalkBudget, Session!WalkBudget, AbilityOf, Session!AbilityOf
<1>2. Session!Effects(s, c) = Effects(s, c)
  BY DEF Effects, Session!Effects, Living, Session!Living
<1>3. /\ \A travelled, off, pit :
           Session!SubmitMove(s, r.player, travelled, off, pit)
             = SubmitMove(s, r.player, travelled, off, pit)
      /\ \A rises : Session!SubmitJump(s, r.player, rises) = SubmitJump(s, r.player, rises)
      /\ \A fx, pit : Session!SubmitAbility(s, c, fx, pit) = SubmitAbility(s, c, fx, pit)
      /\ Session!PassTurn(s) = PassTurn(s)
      /\ Session!TimeOutTurn(s) = TimeOutTurn(s)
      /\ Session!Valid(s, c) <=> Valid(s, c)
  BY SameCalls
<1>4. Session!Accepts(s, r) =
        CASE r.kind = "Move" -> moves2
          [] r.kind = "Jump" -> jumps2
          [] r.kind = "Pass" -> {Session!PassTurn(s)}
          [] r.kind = "Timeout" -> {Session!TimeOutTurn(s)}
          [] r.kind = "PassiveChoice" -> {}
          [] r.kind = "Ability" -> IF Session!Valid(s, c2) THEN shots2 ELSE {}
  BY DEF Session!Accepts
<1>5. Accepts(s, r) =
        CASE r.kind = "Move" -> moves
          [] r.kind = "Jump" -> jumps
          [] r.kind = "Pass" -> {PassTurn(s)}
          [] r.kind = "Timeout" -> {TimeOutTurn(s)}
          [] r.kind = "PassiveChoice" -> {}
          [] r.kind = "Ability" -> IF Valid(s, c) THEN shots ELSE {}
  BY DEF Accepts
<1> HIDE DEF c, c2
<1>6. moves2 = moves /\ jumps2 = jumps
  BY <1>1, <1>3
<1>7. shots2 = shots
  BY <1>1, <1>2, <1>3
<1> HIDE DEF moves, moves2, jumps, jumps2, shots, shots2
<1> QED
  BY <1>1, <1>3, <1>4, <1>5, <1>6, <1>7

LEMMA SameSession ==
  /\ \A ss, r : Session!Outcomes(ss, r) = Outcomes(ss, r)
  /\ Session!NewSession(Session!Start(Session!InitialState))
       = NewSession(Start(InitialState))
<1>1. \A ss, r, t : Session!Receipt(ss, r, t) = Receipt(ss, r, t)
  <2>1. \A ss, r, t : Session!Record(ss, r, t) = Record(ss, r, t)
    <3>1. \A ledger, r, t : Session!WithEntry(ledger, r, t) = WithEntry(ledger, r, t)
      BY DEF WithEntry, Session!WithEntry
    <3>2. \A ss : Session!Close(ss) = Close(ss)
      BY DEF Close, Session!Close
    <3> QED
      BY <3>1, <3>2 DEF Record, Session!Record
  <2> QED
    BY <2>1 DEF Receipt, Session!Receipt, Fault, Session!Fault, Close, Session!Close
<1>2. \A ss : /\ Session!Fault(ss) = Fault(ss)
              /\ Session!SimulationFault(ss) = SimulationFault(ss)
              /\ Session!Rejection(ss) = Rejection(ss)
  BY DEF Fault, Session!Fault, Close, Session!Close, SimulationFault,
         Session!SimulationFault, Rejection, Session!Rejection, Transition,
         Session!Transition
<1>3. \A ss, r, h : Session!Publish(ss, r, h) = Publish(ss, r, h)
  <2>1. \A d, pre, post, h : Session!Transition(d, pre, post, h) = Transition(d, pre, post, h)
    BY DEF Transition, Session!Transition
  <2> QED
    BY <1>1, <1>2, <2>1 DEF Publish, Session!Publish
<1>4. \A h, r : Session!Refused(h, r) <=> Refused(h, r)
  BY DEF Refused, Session!Refused, Living, Session!Living,
         AcceptsAbility, Session!AcceptsAbility
<1>5. \A ss, r : Session!Execute(ss, r) = Execute(ss, r)
  BY <1>1, <1>2, <1>3, <1>4, SameAccepts
     DEF Execute, Session!Execute, MayRefuse, Session!MayRefuse
<1>6. \A ss, r : Session!Known(ss, r) = Known(ss, r)
  BY <1>2 DEF Known, Session!Known, Replayed, Session!Replayed
<1>7. \A S : Session!Cardinality(S) = Cardinality(S)
  BY DEF Cardinality, Session!Cardinality
<1>8. \A ss, r : Session!Outcomes(ss, r) = Outcomes(ss, r)
  BY <1>2, <1>5, <1>6, <1>7 DEF Outcomes, Session!Outcomes
<1>9. Session!InitialState = InitialState
  BY DEF InitialState, Session!InitialState, First, Session!First
<1>10. \A h : Session!NewSession(h) = NewSession(h)
  BY DEF NewSession, Session!NewSession
<1> QED
  BY <1>8, <1>9, <1>10, SameCalls

-----------------------------------------------------------------------------
(* One call (lib.rs:275).                                                  *)

(* A record with the fields of a handle, around one with those of a session*)
Handled(h) ==
  /\ h \in [session : {h.session}, poisoned : BOOLEAN, broken : BOOLEAN]
  /\ Shaped(h.session)

(* Mishaps, faults and calls that only look leave the session alone.       *)
LEMMA MishapsChangeNothing ==
  ASSUME NEW h, Handled(h), NEW status,
         NEW call \in Mishaps(h) \cup {Fails(h, status), Fails(Poison(h), status)}
  PROVE  Handled(call.handle) /\ call.handle.session = h.session
<1>1. /\ Handled(Poison(h)) /\ Poison(h).session = h.session
      /\ Handled([h EXCEPT !.poisoned = TRUE, !.broken = TRUE])
      /\ [h EXCEPT !.poisoned = TRUE, !.broken = TRUE].session = h.session
  BY DEF Poison, Handled
<1>2. \A g, any : Fails(g, any).handle = g
  BY DEF Fails
<1> DEFINE broken == [h EXCEPT !.poisoned = TRUE, !.broken = TRUE]
<1>3. \E g \in {h, Poison(h), broken} : \E any : call = Fails(g, any)
  BY DEF Mishaps, Panics
<1> HIDE DEF broken
<1>4. call.handle \in {h, Poison(h), broken}
  BY <1>2, <1>3
<1> QED
  BY <1>1, <1>4 DEF broken

(* The session is what it was, or it has recorded what the call returns.   *)
LEMMA CallSwapsOnce ==
  ASSUME NEW h, Handled(h), NEW r, NEW call \in Apply(h, r)
  PROVE  /\ Handled(call.handle)
         /\ \/ call.handle.session = h.session
            \/ \E o \in Outcomes(h.session, r) :
                 \E t : /\ Records(h.session, r, t, o)
                        /\ call.handle.session = o.session
                        /\ call.status = "OK"
                        /\ call.transition = t
<1>1. CASE call \in Mishaps(h)
  BY <1>1, MishapsChangeNothing
<1>2. ASSUME NEW o \in Outcomes(h.session, r), o.reply.kind = "Fault",
             call \in Faulted(h, o.session)
      PROVE  Handled(call.handle) /\ call.handle.session = h.session
  BY <1>2, MishapsChangeNothing DEF Faulted
<1>3. ASSUME NEW o \in Outcomes(h.session, r), o.reply.kind # "Fault",
             call \in Swap(h, o)
      PROVE  /\ Handled(call.handle)
             /\ \/ call.handle.session = h.session
                \/ \E t : /\ Records(h.session, r, t, o)
                          /\ call.handle.session = o.session
                          /\ call.status = "OK"
                          /\ call.transition = t
  <2>1. CASE call = Fails(h, "RESPONSE_TOO_LARGE")
    BY <2>1, MishapsChangeNothing
  <2> DEFINE swapped == [h EXCEPT !.session = o.session]
  <2>2. ASSUME call = [handle |-> swapped, status |-> "OK",
                       transition |-> o.reply.transition]
        PROVE  /\ Handled(call.handle)
               /\ \/ call.handle.session = h.session
                  \/ \E t : /\ Records(h.session, r, t, o)
                            /\ call.handle.session = o.session
                            /\ call.status = "OK"
                            /\ call.transition = t
    <3>1. call.handle.session = o.session
      BY <2>2 DEF Handled
    <3>2. CASE Repeats(h.session, r, o)
      <4>1. o.session = h.session
        BY <3>2 DEF Repeats, Known
      <4> QED
        BY <2>2, <3>1, <4>1 DEF Handled
    <3>3. ASSUME NEW t, Records(h.session, r, t, o)
          PROVE  /\ Handled(call.handle)
                 /\ call.transition = t
      <4>1. Shaped(o.session)
        BY <3>3, RecordExtends DEF Extends
      <4> QED
        BY <2>2, <3>3, <4>1 DEF Handled, Records
    <3>4. ~Closes(h.session, o) /\ ~Dropped(h.session, o)
      BY <1>3 DEF Closes, Dropped
    <3> QED
      BY <2>2, <3>1, <3>2, <3>3, <3>4, OutcomeKinds DEF Handled
  <2> QED
    BY <1>3, <2>1, <2>2 DEF Swap
<1> QED
  BY <1>1, <1>2, <1>3 DEF Apply

-----------------------------------------------------------------------------
(* Calls in parallel.                                                      *)

HInv ==
  /\ Handled(handle)
  /\ DOMAIN reply = Caller
  /\ \A r \in DOMAIN answered : r.id \in DOMAIN handle.session.ledger

(* What a mutating call does to the session, seen from the caller c.       *)
LEMMA MutateSteps ==
  ASSUME HInv, NEW c \in Caller, Mutate(c)
  PROVE  /\ HInv'
         /\ \/ UNCHANGED <<handle.session, answered>>
            \/ \E r \in Session!Requests \cup DOMAIN answered :
                 /\ Session!Submit(r)
                 /\ r.id \in DOMAIN handle'.session.ledger \ DOMAIN handle.session.ledger
                 /\ reply'[c] = Reply("OK", handle'.session.ledger[r.id].transition)
<1>1. PICK r \in Session!Requests \cup DOMAIN answered :
        \E call \in Apply(handle, r) :
          /\ Return(c, call)
          /\ answered' =
               IF r.id \in DOMAIN call.handle.session.ledger \ DOMAIN handle.session.ledger
                 THEN [q \in DOMAIN answered \cup {r} |->
                         IF q = r THEN call.transition ELSE answered[q]]
                 ELSE answered
  BY DEF Mutate
<1>2. PICK call \in Apply(handle, r) :
        /\ Return(c, call)
        /\ answered' =
             IF r.id \in DOMAIN call.handle.session.ledger \ DOMAIN handle.session.ledger
               THEN [q \in DOMAIN answered \cup {r} |->
                       IF q = r THEN call.transition ELSE answered[q]]
               ELSE answered
  BY <1>1
<1>3. /\ handle' = call.handle
      /\ DOMAIN reply' = Caller
      /\ reply'[c] = Reply(call.status, call.transition)
  BY <1>2 DEF Return, HInv
<1>4. /\ Handled(handle')
      /\ \/ call.handle.session = handle.session
         \/ \E o \in Outcomes(handle.session, r) :
              \E t : /\ Records(handle.session, r, t, o)
                     /\ call.handle.session = o.session
                     /\ call.status = "OK"
                     /\ call.transition = t
  BY <1>3, CallSwapsOnce DEF HInv
<1>5. CASE call.handle.session = handle.session
  <2>1. UNCHANGED <<handle.session, answered>>
    BY <1>2, <1>3, <1>5
  <2> QED
    BY <1>3, <1>4, <2>1 DEF HInv
<1>6. ASSUME NEW o \in Outcomes(handle.session, r), NEW t,
             Records(handle.session, r, t, o),
             call.handle.session = o.session, call.status = "OK", call.transition = t
      PROVE  /\ HInv'
             /\ Session!Submit(r)
             /\ r.id \in DOMAIN handle'.session.ledger \ DOMAIN handle.session.ledger
             /\ reply'[c] = Reply("OK", handle'.session.ledger[r.id].transition)
  <2>1. /\ r.id \notin DOMAIN handle.session.ledger
        /\ DOMAIN o.session.ledger = DOMAIN handle.session.ledger \cup {r.id}
        /\ o.session.ledger[r.id] = [request |-> r, transition |-> t]
    <3>1. Extends(handle.session, r, t, o.session)
      BY <1>6, RecordExtends
    <3> QED
      BY <3>1 DEF Extends
  <2>2. answered' = [q \in DOMAIN answered \cup {r} |->
                       IF q = r THEN t ELSE answered[q]]
    BY <1>2, <1>6, <2>1
  <2>3. o.reply.kind = "Receipt" /\ o.reply.transition = t
    BY <1>6 DEF Records
  <2>4. r \notin DOMAIN answered
    BY <2>1 DEF HInv
  <2>5. o \in Session!Outcomes(handle.session, r)
    BY SameSession
  <2>6. Session!Submit(r)
    BY <1>3, <1>6, <2>2, <2>3, <2>4, <2>5 DEF Session!Submit
  <2>7. HInv'
    BY <1>3, <1>4, <1>6, <2>1, <2>2 DEF HInv
  <2> QED
    BY <1>3, <1>6, <2>1, <2>6, <2>7
<1> QED
  BY <1>4, <1>5, <1>6

(* The other steps of a call leave the session alone.                      *)
LEMMA OthersKeep ==
  ASSUME HInv, NEW c \in Caller, Check(c) \/ Lock(c) \/ Read(c)
  PROVE  HInv' /\ UNCHANGED <<handle.session, answered>>
<1>1. CASE Check(c)
  BY <1>1 DEF Check, HInv
<1>2. CASE Lock(c)
  <2>1. /\ UNCHANGED answered
        /\ DOMAIN reply' = Caller
        /\ handle' = handle \/ handle' = Poison(handle)
    BY <1>2 DEF Lock, HInv
  <2>2. Handled(Poison(handle)) /\ Poison(handle).session = handle.session
    BY DEF HInv, Handled, Poison
  <2> QED
    BY <2>1, <2>2 DEF HInv
<1>3. CASE Read(c)
  <2>1. PICK call \in Look(handle) : Return(c, call)
    BY <1>3 DEF Read
  <2>2. Handled(call.handle) /\ call.handle.session = handle.session
    BY MishapsChangeNothing DEF Look, HInv
  <2> QED
    BY <1>3, <2>1, <2>2 DEF Read, Return, HInv
<1> QED
  BY <1>1, <1>2, <1>3

LEMMA StepsOfHandle ==
  ASSUME HInv, [Next]_vars
  PROVE  /\ HInv'
         /\ \/ UNCHANGED <<handle.session, answered>>
            \/ \E c \in Caller, r \in Session!Requests \cup DOMAIN answered :
                 /\ pc[c] = "inside"
                 /\ Session!Submit(r)
                 /\ r.id \in DOMAIN handle'.session.ledger \ DOMAIN handle.session.ledger
                 /\ reply'[c] = Reply("OK", handle'.session.ledger[r.id].transition)
<1>1. CASE UNCHANGED vars
  BY <1>1 DEF vars, HInv
<1>2. ASSUME NEW c \in Caller, Check(c) \/ Lock(c) \/ Read(c)
      PROVE  HInv' /\ UNCHANGED <<handle.session, answered>>
  BY <1>2, OthersKeep
<1>3. ASSUME NEW c \in Caller, Mutate(c)
      PROVE  /\ pc[c] = "inside"
             /\ HInv'
             /\ \/ UNCHANGED <<handle.session, answered>>
                \/ \E r \in Session!Requests \cup DOMAIN answered :
                     /\ Session!Submit(r)
                     /\ r.id \in DOMAIN handle'.session.ledger \ DOMAIN handle.session.ledger
                     /\ reply'[c] = Reply("OK", handle'.session.ledger[r.id].transition)
  BY <1>3, MutateSteps DEF Mutate
<1> QED
  BY <1>1, <1>2, <1>3 DEF Next

LEMMA InitIsHandled == Init => HInv
BY DEF Init, HInv, Handled, NewHandle, NewSession, Shaped

(* Behind a handle is a session, whoever calls, in whatever order, and     *)
(* whatever goes wrong around the calls (lib.rs:92, 275).                  *)
THEOREM HandleImplementsSession == Spec => ImplementsSession
<1>1. Init => Session!Init
  <2> SUFFICES ASSUME Init PROVE Session!Init
    OBVIOUS
  <2>1. handle.session = NewSession(Start(InitialState))
    BY DEF Init, NewHandle
  <2> QED
    BY <2>1, SameSession DEF Init, Session!Init
<1>2. HInv /\ [Next]_vars => HInv'
  BY StepsOfHandle
<1>3. HInv /\ [Next]_vars => [Session!Next]_Session!vars
  BY StepsOfHandle DEF Session!Next, Session!Resubmit, Session!vars
<1> QED
  BY <1>1, <1>2, <1>3, InitIsHandled, PTL DEF Spec, ImplementsSession, Session!Spec

(* A match changes only in a call that returns OK with the receipt it      *)
(* recorded; no other call, however it ends, has changed it (lib.rs:275).  *)
THEOREM NothingChangesUnseen == Spec => ChangesAreReturned
<1>1. HInv /\ [Next]_vars => HInv'
  BY StepsOfHandle
<1>2. HInv /\ [Next]_vars =>
        [handle'.session # handle.session =>
           \E c \in Caller : \E id \in DOMAIN handle'.session.ledger :
             /\ pc[c] = "inside"
             /\ id \notin DOMAIN handle.session.ledger
             /\ reply'[c] =
                  Reply("OK", handle'.session.ledger[id].transition)]_vars
  BY StepsOfHandle
<1> QED
  BY <1>1, <1>2, InitIsHandled, PTL DEF Spec, ChangesAreReturned

=============================================================================
