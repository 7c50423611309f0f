----------------------------- MODULE CodexTurns -----------------------------
(***************************************************************************)
(* packages/agent-providers/codex: the turns of one Codex session, from     *)
(* provider.ts and rpc.ts.  Wanda and the codex app-server talk JSON-RPC    *)
(* over two pipes; both keep order and lose nothing until stdout closes.    *)
(*                                                                         *)
(* Codex names its turns itself.  Wanda learns a turn's name from the reply *)
(* to turn/start or from turn/started, and matches what Codex tells it of   *)
(* a turn by that name; until it knows the name, it takes everything.  Here *)
(* the name of turn t is t, and None is a name not known.                   *)
(*                                                                         *)
(* prompt() is an Effect generator.  Effect does not resume a generator     *)
(* whose effect failed, so its finally, which resets turnRef and takes the  *)
(* abort listener off, runs only after success; the turn runner then fires  *)
(* the abort signal of a turn that failed or was interrupted.               *)
(*                                                                         *)
(* The items of a turn, its modes and its models are not told apart.        *)
(***************************************************************************)
EXTENDS Integers, Sequences, FiniteSets

CONSTANTS MaxTurns,   \* bound: turns prompted
          MaxFaults   \* bound: refusals, deadlines missed, broken lines, deaths of Codex

ASSUME CodexAssumption == MaxTurns \in Nat /\ MaxFaults \in Nat

Turns == 1 .. MaxTurns
None == 0
Transport == MaxTurns + 1   \* what settles a turn when the channel fails

VARIABLES phase,     \* what prompt() of each turn waits for, or how it ended
          request,   \* its turn/start in the RPC client
          name,      \* codexTurnId
          settled,   \* completion: unsettled, resolved or rejected ...
          settledBy, \* ... history: and the Codex turn, or Transport, that did it
          cancelling,\* turns whose signal was aborted
          turnRef,   \* the active turn, or None
          fatal,     \* transportFatalRef is set
          open,      \* Codex turns whose approval the user is asked for
          unnamed,   \* history: turns that ended badly before their name was known
          stdin,     \* frames on their way to Codex
          stdout,    \* frames on their way to Wanda
          codex,     \* Codex: what each turn is at
          closed,    \* Codex is gone; and the RPC client knows it
          faults     \* for the bound

wanda == <<phase, request, name, settled, settledBy, cancelling, turnRef, fatal, open, unnamed>>
vars == <<wanda, stdin, stdout, codex, closed, faults>>

Init ==
    /\ phase = [t \in Turns |-> "none"] /\ request = [t \in Turns |-> "none"]
    /\ name = [t \in Turns |-> None]
    /\ settled = [t \in Turns |-> "no"] /\ settledBy = [t \in Turns |-> None]
    /\ cancelling = {} /\ turnRef = None /\ fatal = FALSE /\ open = {} /\ unnamed = {}
    /\ stdin = <<>> /\ stdout = <<>> /\ codex = [t \in Turns |-> "none"]
    /\ closed = "no" /\ faults = 0

-----------------------------------------------------------------------------
Faults == faults < MaxFaults /\ faults' = faults + 1
Frame(kind, t) == [kind |-> kind, turn |-> t]
Unended(t) == phase[t] \in {"starting", "waiting"}
Requested(t) == request[t] \in {"sent", "again", "review"}

(* The RPC client writes nothing once it is closed; Codex reads nothing     *)
(* once it is gone.                                                        *)
Writes(frames) == stdin' = IF closed = "no" THEN stdin \o frames ELSE stdin

(* resolveTurn and rejectTurn: the first one counts. *)
Settles(t, how, by) ==
    IF settled[t] = "no"
    THEN settled' = [settled EXCEPT ![t] = how] /\ settledBy' = [settledBy EXCEPT ![t] = by]
    ELSE UNCHANGED <<settled, settledBy>>

(* Mutant: the transport's failure is only latched. *)
LatchesFatal == fatal' = TRUE /\ UNCHANGED <<settled, settledBy>>

(* handleTransportFailure: the first one is latched and rejects the turn. *)
TransportFails ==
    /\ fatal' = TRUE
    /\ IF ~fatal /\ turnRef # None
       THEN Settles(turnRef, "rejected", Transport) ELSE UNCHANGED <<settled, settledBy>>

(* Answers to Codex for the turns S, in some order. *)
Answers(S) == {f \in [1 .. Cardinality(S) -> {Frame("answer", t) : t \in S}] :
                 \A i, j \in DOMAIN f : f[i] = f[j] => i = j}

(* Mutant: the abort signal is fired before prompt() has put its listener   *)
(* on.                                                                     *)
EndsUnheard(t, how) ==
    /\ phase' = [phase EXCEPT ![t] = how] /\ cancelling' = cancelling \cup {t} /\ open' = {}
    /\ unnamed' = unnamed \cup (IF name[t] = t THEN {} ELSE {t})
    /\ \E answers \in Answers(open) : Writes(answers)

(* prompt() fails or is interrupted: drainPending denies what is open, and  *)
(* the abort signal sends turn/interrupt, with the name if it is known.     *)
(* The signal is fired before the promises of the denied prompts resume, so *)
(* their answers are written after it.                                     *)
EndsBadly(t, how) ==
    /\ phase' = [phase EXCEPT ![t] = how] /\ cancelling' = cancelling \cup {t} /\ open' = {}
    /\ unnamed' = unnamed \cup (IF name[t] = t THEN {} ELSE {t})
    /\ \E answers \in Answers(open) : Writes(<<Frame("interrupt", name[t])>> \o answers)

-----------------------------------------------------------------------------
(* A turn of the given kind of request, one at a time (AgentRuntime).  A    *)
(* latched failure is returned at once.                                    *)
Begins(t, kind) ==
    /\ phase[t] = "none" /\ \A u \in Turns : ~Unended(u) /\ (u < t => phase[u] # "none")
    /\ IF fatal
       THEN phase' = [phase EXCEPT ![t] = "failed"] /\ UNCHANGED <<request, turnRef, stdin>>
       ELSE /\ phase' = [phase EXCEPT ![t] = "starting"]
            /\ request' = [request EXCEPT ![t] = kind]
            /\ turnRef' = t
            /\ Writes(<<Frame("start", t)>>)
    /\ UNCHANGED <<name, settled, settledBy, cancelling, fatal, open, unnamed, stdout, codex,
                   closed, faults>>

Prompt(t) == Begins(t, "sent")

StartReview(t) == Begins(t, "review")

(* The turn's fiber is interrupted; its turn/start is not. *)
Cancel(t) ==
    /\ Unended(t) /\ EndsBadly(t, "cancelled")
    /\ UNCHANGED <<request, name, settled, settledBy, turnRef, fatal, stdout, codex, closed,
                   faults>>

(* The deadline of turn/start: a reply that comes later is ignored. *)
RequestTimesOut(t) ==
    /\ Requested(t) /\ request' = [request EXCEPT ![t] = "done"] /\ Faults
    /\ IF phase[t] = "starting" THEN EndsBadly(t, "failed")
                                ELSE UNCHANGED <<phase, cancelling, open, unnamed, stdin>>
    /\ UNCHANGED <<name, settled, settledBy, turnRef, fatal, stdout, codex, closed>>

(* The finally of prompt(). *)
ResetsTurn == turnRef' = None

(* prompt() resumes with what settled its completion.  After success its    *)
(* finally runs.                                                           *)
Finishes(t) ==
    /\ phase[t] = "waiting" /\ settled[t] # "no"
    /\ IF settled[t] = "resolved"
       THEN /\ phase' = [phase EXCEPT ![t] = "resolved"] /\ ResetsTurn
            /\ UNCHANGED <<cancelling, open, unnamed, stdin>>
       ELSE EndsBadly(t, "failed") /\ UNCHANGED turnRef
    /\ UNCHANGED <<request, name, settled, settledBy, fatal, stdout, codex, closed, faults>>

(* The user decides; a prompt may be answered after its turn. *)
UserAnswers(c) ==
    /\ c \in open /\ open' = open \ {c}
    /\ Writes(<<Frame("answer", c)>>)
    /\ UNCHANGED <<phase, request, name, settled, settledBy, cancelling, turnRef, fatal, unnamed,
                   stdout, codex, closed, faults>>

-----------------------------------------------------------------------------
(* processLine, of the next frame of stdout. *)

Receives(kind) ==
    /\ stdout # <<>> /\ Head(stdout).kind = kind
    /\ stdout' = Tail(stdout) /\ UNCHANGED <<codex, faults>>

(* A reply nobody waits for is ignored; one whose prompt() was cancelled    *)
(* does nothing.  startReview() does not look for a name in its reply.     *)
Reply ==
    LET t == Head(stdout).turn
    IN /\ Receives("reply")
       /\ request' = [request EXCEPT ![t] = "done"]
       /\ IF Requested(t) /\ phase[t] = "starting"
          THEN /\ phase' = [phase EXCEPT ![t] = "waiting"]
               /\ name' = IF request[t] = "review" THEN name ELSE [name EXCEPT ![t] = t]
          ELSE UNCHANGED <<phase, name>>
       /\ UNCHANGED <<settled, settledBy, cancelling, turnRef, fatal, open, unnamed, stdin,
                      closed>>

(* turn/start is refused.  If the model is the reason another one is tried, *)
(* once, and though the turn was cancelled meanwhile.                      *)
Refusal ==
    LET t == Head(stdout).turn
    IN /\ Receives("refusal")
       /\ \/ /\ request[t] = "sent" /\ request' = [request EXCEPT ![t] = "again"]
             /\ Writes(<<Frame("start", t)>>)
             /\ UNCHANGED <<phase, cancelling, open, unnamed>>
          \/ /\ request' = [request EXCEPT ![t] = "done"]
             /\ IF Requested(t) /\ phase[t] = "starting"
                THEN EndsBadly(t, "failed")
                ELSE UNCHANGED <<phase, cancelling, open, unnamed, stdin>>
       /\ UNCHANGED <<name, settled, settledBy, turnRef, fatal, closed>>

(* Is what Codex says of its turn c about the active turn? *)
Matches(c) == turnRef # None /\ name[turnRef] \in {None, c}

TurnStarted ==
    LET c == Head(stdout).turn
    IN /\ Receives("started")
       /\ name' = IF Matches(c) THEN [name EXCEPT ![turnRef] = c] ELSE name
       /\ UNCHANGED <<phase, request, settled, settledBy, cancelling, turnRef, fatal, open,
                      unnamed, stdin, closed>>

(* An interrupted turn is an error, unless Wanda interrupted it. *)
TurnCompleted ==
    LET c == Head(stdout).turn
    IN /\ \/ Receives("completed") /\ IF Matches(c) THEN Settles(turnRef, "resolved", c)
                                                    ELSE UNCHANGED <<settled, settledBy>>
          \/ Receives("failed") /\ IF Matches(c) THEN Settles(turnRef, "rejected", c)
                                                 ELSE UNCHANGED <<settled, settledBy>>
          \/ Receives("interrupted") /\ IF Matches(c) /\ turnRef \notin cancelling
                                        THEN Settles(turnRef, "rejected", c)
                                        ELSE UNCHANGED <<settled, settledBy>>
       /\ name' = IF Matches(c) THEN [name EXCEPT ![turnRef] = c] ELSE name
       /\ UNCHANGED <<phase, request, cancelling, turnRef, fatal, open, unnamed, stdin,
                      closed>>

(* An approval is asked of the user in the name of the active turn, which   *)
(* need not be the one Codex asks for.                                     *)
Approval ==
    LET c == Head(stdout).turn
    IN /\ Receives("approval")
       /\ IF turnRef = None
          THEN Writes(<<Frame("answer", c)>>) /\ UNCHANGED open
          ELSE open' = open \cup {c} /\ UNCHANGED stdin
       /\ UNCHANGED <<phase, request, name, settled, settledBy, cancelling, turnRef, fatal, unnamed,
                      closed>>

(* A line that does not parse. *)
ParseFails ==
    /\ Receives("garbage")
    /\ TransportFails
    /\ UNCHANGED <<phase, request, name, cancelling, turnRef, open, unnamed, stdin, closed>>

(* stdout closes, after all that was in it: what is pending is rejected. *)
Closes ==
    LET t == CHOOSE u \in Turns : phase[u] = "starting"
    IN /\ stdout = <<>> /\ closed = "gone" /\ closed' = "closed"
       /\ request' = [u \in Turns |-> IF request[u] = "none" THEN "none" ELSE "done"]
       /\ TransportFails
       /\ IF \E u \in Turns : phase[u] = "starting"
          THEN EndsBadly(t, "failed") ELSE UNCHANGED <<phase, cancelling, open, unnamed, stdin>>
       /\ UNCHANGED <<name, turnRef, stdout, codex, faults>>

-----------------------------------------------------------------------------
(* Codex, as far as Wanda's side of the protocol shows it. *)

Active(c) == codex[c] \in {"accepted", "running", "asking", "answered"}

Says(frames) == stdout' = stdout \o frames

CodexReads(kind) ==
    /\ closed = "no" /\ stdin # <<>> /\ Head(stdin).kind = kind
    /\ stdin' = Tail(stdin) /\ UNCHANGED <<wanda, closed>>

(* It accepts the turn or refuses it. *)
CodexStarts ==
    LET c == Head(stdin).turn
    IN /\ CodexReads("start")
       /\ \/ /\ codex' = [codex EXCEPT ![c] = "accepted"] /\ Says(<<Frame("reply", c)>>)
             /\ UNCHANGED faults
          \/ /\ codex' = [codex EXCEPT ![c] = "running"]
             /\ Says(<<Frame("started", c), Frame("reply", c)>>)
             /\ UNCHANGED faults
          \/ Says(<<Frame("refusal", c)>>) /\ Faults /\ UNCHANGED codex

(* Without a name, an interrupt may hit what runs or be refused. *)
CodexInterrupted ==
    LET hit == {c \in Turns : Active(c) /\ Head(stdin).turn \in {c, None}}
    IN /\ CodexReads("interrupt") /\ UNCHANGED faults
       /\ \/ \E c \in hit : /\ codex' = [codex EXCEPT ![c] = "over"]
                             /\ Says(<<Frame("interrupted", c)>>)
          \/ (Head(stdin).turn = None \/ hit = {}) /\ UNCHANGED <<codex, stdout>>

CodexAnswered ==
    LET c == Head(stdin).turn
    IN /\ CodexReads("answer") /\ UNCHANGED faults
       /\ codex' = IF codex[c] = "asking" THEN [codex EXCEPT ![c] = "answered"] ELSE codex
       /\ UNCHANGED stdout

(* A turn begins, may ask for an approval (once: a bound), and ends. *)
CodexWorks(c) ==
    /\ closed = "no"
    /\ \/ codex[c] = "accepted" /\ codex' = [codex EXCEPT ![c] = "running"]
          /\ Says(<<Frame("started", c)>>)
       \/ codex[c] = "running" /\ codex' = [codex EXCEPT ![c] = "asking"]
          /\ Says(<<Frame("approval", c)>>)
       \/ codex[c] \in {"running", "answered"} /\ codex' = [codex EXCEPT ![c] = "over"]
          /\ \E how \in {"completed", "failed"} : Says(<<Frame(how, c)>>)
    /\ UNCHANGED <<wanda, stdin, closed, faults>>

CodexGarbles ==
    /\ closed = "no" /\ Faults
    /\ Says(<<Frame("garbage", None)>>)
    /\ UNCHANGED <<wanda, stdin, codex, closed>>

CodexDies ==
    /\ closed = "no" /\ Faults
    /\ closed' = "gone" /\ stdin' = <<>> /\ codex' = [c \in Turns |-> "over"]
    /\ UNCHANGED <<wanda, stdout>>

-----------------------------------------------------------------------------
Receive ==
    \/ Reply \/ Refusal \/ TurnStarted \/ TurnCompleted \/ Approval \/ ParseFails \/ Closes

CodexHandles == CodexStarts \/ CodexInterrupted \/ CodexAnswered

Next ==
    \/ Receive \/ CodexHandles \/ CodexGarbles \/ CodexDies
    \/ \E t \in Turns : \/ Prompt(t) \/ StartReview(t) \/ Cancel(t) \/ RequestTimesOut(t)
                        \/ Finishes(t) \/ UserAnswers(t) \/ CodexWorks(t)

(* Frames are read, the event loop goes on, the user answers, and a turn of *)
(* Codex that is left alone ends.  No deadline has to pass.                *)
Fairness ==
    /\ WF_vars(Receive) /\ WF_vars(CodexHandles)
    /\ \A t \in Turns : /\ WF_vars(Finishes(t)) /\ WF_vars(UserAnswers(t))
                        /\ WF_vars(CodexWorks(t))

Spec == Init /\ [][Next]_vars
FairSpec == Spec /\ Fairness
-----------------------------------------------------------------------------
(* Properties. *)

(* Types of the state; turnRef and the pending requests are of turns that   *)
(* were prompted, and an ended turn that succeeded is nobody's reference.   *)
TypeOK ==
    /\ phase \in [Turns -> {"none", "starting", "waiting", "resolved", "failed", "cancelled"}]
    /\ request \in [Turns -> {"none", "sent", "again", "review", "done"}]
    /\ name \in [Turns -> Turns \cup {None}]
    /\ settled \in [Turns -> {"no", "resolved", "rejected"}]
    /\ settledBy \in [Turns -> Turns \cup {None, Transport}]
    /\ cancelling \subseteq Turns /\ turnRef \in Turns \cup {None} /\ fatal \in BOOLEAN
    /\ open \subseteq Turns /\ unnamed \subseteq Turns
    /\ stdin \in Seq([kind : {"start", "interrupt", "answer"}, turn : Turns \cup {None}])
    /\ stdout \in Seq([kind : {"reply", "refusal", "started", "completed", "failed", "interrupted",
                               "approval", "garbage"}, turn : Turns \cup {None}])
    /\ codex \in [Turns -> {"none", "accepted", "running", "asking", "answered", "over"}]
    /\ closed \in {"no", "gone", "closed"} /\ faults \in 0 .. MaxFaults
    /\ turnRef # None => phase[turnRef] \notin {"none", "resolved"}
    /\ \A t \in Turns : /\ phase[t] = "starting" => Requested(t)
                        /\ settled[t] = "no" <=> settledBy[t] = None

(* Nothing runs in Codex that Wanda has forgotten: a Codex turn belongs to  *)
(* a turn that goes on, or its interrupt is on its way.  The exceptions are *)
(* the turns that ended before Wanda knew their name, and those that        *)
(* another turn's end ended.                                               *)
Attended ==
    \A c \in Turns : Active(c) =>
        \/ Unended(c)
        \/ c \in unnamed \/ settledBy[c] \notin {None, c, Transport}
        \/ \E i \in DOMAIN stdin : stdin[i] = Frame("interrupt", c)

(* "the Effect unblocks and the runtime can transition running" (provider.ts): *)
(* prompt() returns, whatever Codex, its pipes and stale notifications do.  *)
TurnsEnd == \A t \in Turns : Unended(t) ~> ~Unended(t)
=============================================================================
