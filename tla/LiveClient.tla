----------------------------- MODULE LiveClient -----------------------------
(***************************************************************************)
(* A local match as the client plays it: LiveMatch.cs, which submits       *)
(* requests, takes over the snapshot of every accepted one and keeps the   *)
(* planning deadline, under the frame loop of Main.cs, which lets the bot  *)
(* play its turns and times out the others. The session it talks to is     *)
(* the one of module MatchSession.                                         *)
(*                                                                         *)
(* Every submission is one atomic step: all of them are made from the      *)
(* frame thread, so the gate of LocalMatchSession is always free and its   *)
(* asynchronous calls complete before they return. What does go on between *)
(* two frames is time: the input lock of the presentation, the wait of the *)
(* bot and timeout tasks, and the deadline.                                *)
(*                                                                         *)
(* Left out: terrain reads and drawing; the passive prompt, which no match *)
(* reaches; errors of the core while a request resolves, which module      *)
(* SessionPlay explores.                                                   *)
(***************************************************************************)
EXTENDS MatchSession

CONSTANTS
  Bot,         \* players of the bot's team
  Window,      \* DefaultPlanningDeadline, in units of time
  MaxLock,     \* longest input lock a transition asks for
  NoDeadline,
  Answered     \* stands for what the ledger holds under a spent id

ASSUME ClientAssumption ==
  /\ Bot \subseteq Player
  /\ Window \in Nat \ {0}
  /\ MaxLock \in Nat \ {0}
  /\ CommandId \subseteq Nat
  /\ NoDeadline \notin Nat
  /\ NoDeadline \notin Player \X Nat

VARIABLES
  session,     \* the native session
  live,        \* the LiveMatch: view, deadline, armed, ordinal
  lock,        \* time until input opens: _inputLockedUntilMsec
  busy,        \* time until the bot or timeout task ends: _isProcessing...
  age,         \* history: time since the turn opened, up to Window
  last         \* history: who asked last, and what kind of reply came

vars == <<session, live, lock, busy, age, last>>

View(ss) == [host |-> ss.host, generation |-> ss.generation]

InProgress(v) == v.host.phase # "MatchComplete"

Actionable(v) == v.host.phase \in {"Movement", "AimingAndSelection"}

Owed(v) == <<v.host.active, v.host.turn>>

ArmEachTimeBug(l) ==
  IF Actionable(l.view)
    THEN [l EXCEPT !.armed = Owed(l.view), !.deadline = Window]
    ELSE [l EXCEPT !.armed = NoDeadline, !.deadline = NoDeadline]

(* ArmOrClearDeadline(): one deadline for the whole of a turn.             *)
ArmOrClear(l) ==
  IF ~Actionable(l.view)
    THEN [l EXCEPT !.armed = NoDeadline, !.deadline = NoDeadline]
  ELSE IF l.armed = Owed(l.view) THEN l
  ELSE [l EXCEPT !.armed = Owed(l.view), !.deadline = Window]

(* LiveMatch.Create() over a session just created.                         *)
NewLive(ss) ==
  ArmOrClear([view |-> View(ss), deadline |-> NoDeadline,
              armed |-> NoDeadline, ordinal |-> 0])

-----------------------------------------------------------------------------
(* One submission.                                                         *)

Ask(l, kind, slot) ==
  [id |-> l.ordinal, kind |-> kind, slot |-> slot,
   player |-> l.view.host.active, turn |-> l.view.host.turn,
   generation |-> l.view.generation]

WasAccepted(reply) ==
  reply.kind = "Receipt" /\ reply.transition.disposition = "Accepted"

(* The client asks nothing twice: which ids were spent is kept, what they   *)
(* were spent on is forgotten.                                             *)
Forget(ss) ==
  [ss EXCEPT !.ledger = [id \in DOMAIN @ |->
    [request |-> Answered, transition |-> Answered]]]

Answers(r) ==
  {o \in Outcomes(session, r) : session.closed \/ o # SimulationFault(session)}

ReconcilePredictedBug(l, reply) ==
  LET sent == [l EXCEPT !.ordinal = @ + 1]
  IN  IF WasAccepted(reply)
        THEN ArmOrClear([sent EXCEPT
               !.view = [host |-> reply.transition.snapshot,
                         generation |-> l.view.generation + 1]])
        ELSE sent

(* SubmitAsync() and ReconcileAsync(): the id is spent whatever comes      *)
(* back; only an accepted transition moves the view.                       *)
Reconcile(l, reply) ==
  LET sent == [l EXCEPT !.ordinal = @ + 1]
  IN  IF WasAccepted(reply)
        THEN ArmOrClear([sent EXCEPT
               !.view = [host |-> reply.transition.snapshot,
                         generation |-> reply.transition.post]])
        ELSE sent

(* SubmitAndRedrawAsync(): an accepted transition locks input while it is  *)
(* presented, any other answer opens it again. A task of the frame loop    *)
(* waits for the presentation as well; its timer may fire a little late.   *)
Submit(by, outcome) ==
  LET accepted == WasAccepted(outcome.reply)
  IN  /\ session' = Forget(outcome.session)
      /\ live' = Reconcile(live, outcome.reply)
      /\ IF accepted THEN lock' \in 1..MaxLock ELSE lock' = 0
      /\ CASE by = "Input"              -> busy' = busy
           [] by = "Frame" /\ accepted  -> busy' \in {lock', lock' + 1}
           [] by = "Frame" /\ ~accepted -> busy' = 0
      /\ last' = [by |-> by, reply |-> outcome.reply.kind]
      /\ IF Owed(live'.view) = Owed(live.view)
           THEN UNCHANGED age
           ELSE age' = 0

-----------------------------------------------------------------------------
Init ==
  /\ session = NewSession(Start(InitialState))
  /\ live = NewLive(session)
  /\ lock = 0
  /\ busy = 0
  /\ age = 0
  /\ last = [by |-> "Frame", reply |-> "None"]

MayAsk == InProgress(live.view) /\ lock = 0 /\ live.ordinal \in CommandId

(* HandleLiveInput(): whoever sits at the keyboard acts for the active     *)
(* player, which is not asked to be a human one.                           *)
Keys ==
  {<<"Move", "Basic">>, <<"Jump", "Basic">>, <<"Pass", "Basic">>} \cup
  {<<"Ability", slot>> : slot \in Slot}

Input ==
  /\ MayAsk
  /\ \E key \in Keys :
       \E outcome \in Answers(Ask(live, key[1], key[2])) :
         Submit("Input", outcome)

DueBotOnlyBug ==
  MayAsk /\ busy = 0 /\ live.view.host.active \in Bot

(* When _Process() starts a task of its own.                               *)
Due ==
  /\ MayAsk
  /\ busy = 0
  /\ live.view.host.active \in Bot \/ live.deadline = 0

-----------------------------------------------------------------------------
(* The bot (bot.rs). Its choices are triples of kind, slot and power.      *)

Clamp(n, low, high) == IF n < low THEN low ELSE IF n > high THEN high ELSE n

StrikePowerBug(h) == 5

(* A strike is launched at half power, or what walking has left of it.     *)
StrikePower(h) == IF MaxLaunchPower(h) < 5 THEN MaxLaunchPower(h) ELSE 5

(* search_projectile(): the powers it samples, in tenths. Which of them    *)
(* scores best is ballistics over the terrain: any of them may.            *)
Searched(h) == {Clamp(power, 1, MaxLaunchPower(h)) : power \in 1..10}

(* jitter(): the aim error is less than a tenth of the power either way,   *)
(* and the shot is launched within the cap again.                          *)
Jitter(power) == {power - 1, power, power + 1}

Aimed(h) ==
  {Clamp(power, 1, MaxLaunchPower(h)) :
     power \in UNION {Jitter(best) : best \in Searched(h)}}

(* decide() and plan_turn(): every kit of the roster has a projectile, so  *)
(* the bot always finds an ability and never walks. The scores, which      *)
(* decide between the slots, are left open.                                *)
Decide(h) ==
  IF ~AcceptsAbility(h) \/ h.attacked \/ Decided(h)
    THEN {<<"Pass", "Basic", 1>>}
    ELSE {<<"Ability", slot, power>> :
            slot  \in {s \in Slot : s = "Trinket" => h.charge[h.active] >= ChargeFull},
            power \in {StrikePower(h)} \cup Aimed(h)}

BotTurn ==
  /\ Due
  /\ live.view.host.active \in Bot
  /\ \E choice \in Decide(session.host) :
       \E outcome \in Answers(Ask(live, choice[1], choice[2])) :
         /\ outcome.reply.kind = "Receipt" => WasAccepted(outcome.reply)
         /\ Submit("Frame", outcome)

-----------------------------------------------------------------------------

TimeOut ==
  /\ Due
  /\ live.view.host.active \notin Bot
  /\ \E outcome \in Answers(Ask(live, "Timeout", "Basic")) :
       Submit("Frame", outcome)

(* Time goes by while no frame has anything to submit.                     *)
Down(n) == IF n > 0 THEN n - 1 ELSE 0
Up(n) == IF n < Window THEN n + 1 ELSE n

Tick ==
  /\ ~Due
  /\ InProgress(live.view)
  /\ lock' = Down(lock)
  /\ busy' = Down(busy)
  /\ live' = [live EXCEPT !.deadline = IF @ = NoDeadline THEN @ ELSE Down(@)]
  /\ age' = Up(age)
  /\ last' = [by |-> "Frame", reply |-> "None"]
  /\ UNCHANGED session

(* Rematch(): a new session and a new LiveMatch; a task still waiting and  *)
(* the lock are carried into the new match.                                *)
Rematch ==
  /\ ~InProgress(live.view)
  /\ session' = NewSession(Start(InitialState))
  /\ live' = NewLive(session')
  /\ age' = 0
  /\ last' = [by |-> "Input", reply |-> "None"]
  /\ UNCHANGED <<lock, busy>>

Next == Input \/ BotTurn \/ TimeOut \/ Tick \/ Rematch

Spec == Init /\ [][Next]_vars

(* The engine keeps calling _Process() and the clock keeps running; the    *)
(* player owes nothing. This is WF_vars(BotTurn \/ TimeOut \/ Tick) with   *)
(* its halves spelled out: a frame changes something if a task is due or   *)
(* one of the clocks still runs, and nothing if all of them stand still.   *)
FrameMoves ==
  /\ InProgress(live.view) /\ ~session.closed
  /\ \/ Due
     \/ lock > 0
     \/ busy > 0
     \/ live.deadline \in 1..Window
     \/ age < Window
     \/ last # [by |-> "Frame", reply |-> "None"]

Frames ==
  \/ []<>~FrameMoves
  \/ []<><<last'.by = "Frame">>_vars

FairSpec == Spec /\ Frames

-----------------------------------------------------------------------------
(* The view is the authority's state and no other: after any run of        *)
(* accepted, refused and failed requests the client shows, and asks from,  *)
(* exactly what the session last published (LiveMatch.cs:68). One missed   *)
(* or invented generation would have every later request refused. And no   *)
(* answer is a stale one: an id that was spent on a refused request is     *)
(* never used for the corrected one (LiveMatch.cs:369).                    *)
ViewIsCurrent ==
  /\ live.view = View(session)
  /\ last.reply \notin {"Replay", "Conflict"}

(* One deadline governs the whole turn: it expires Window after the turn   *)
(* opened, whatever the player did meanwhile. No action buys time, and no  *)
(* turn starts on what its predecessor left (LiveMatch.cs:405).            *)
OneWindowPerTurn ==
  InProgress(live.view) => live.deadline = Window - age

(* Whatever the bot decides in a match that goes on passes every check the *)
(* session makes of a request and of a command, however much of the turn's *)
(* allowance was walked before and whatever the trinket holds: while its   *)
(* proposals are refused the bot's turn stands still (bot.rs:197).         *)
Proposal(choice) ==
  [id |-> live.ordinal, player |-> live.view.host.active,
   turn |-> live.view.host.turn, slot |-> choice[2], power |-> choice[3]]

BotIsNeverRefused ==
  InProgress(live.view) =>
    \A choice \in Decide(session.host) :
      /\ ~Refused(session.host, Ask(live, choice[1], choice[2]))
      /\ choice[1] = "Ability" => Valid(session.host, Proposal(choice))

(* A match nobody plays still ends, and one that is played cannot be held  *)
(* up by a player who acts without ending its turn, short of filling the   *)
(* ledger, which closes the session (Main.cs:264).                         *)
LiveMatchEnds == <>(~InProgress(live.view) \/ session.closed)

=============================================================================
