------------------------- MODULE PermissionFlowProofs -------------------------
(***************************************************************************)
(* The safety of permission prompts, for any number of requests, crashes   *)
(* and changes of the log.                                                 *)
(*                                                                         *)
(* None of the properties is inductive: they speak of a server that serves *)
(* and have to survive one that is down, or half way through its boot.     *)
(* The invariant says what holds then: an open prompt that nobody awaits   *)
(* has an open row, which is what the next boot will find.                 *)
(***************************************************************************)
EXTENDS PermissionFlow, TLAPS

(* A request that was not made has left no trace. *)
Unasked ==
    \A r \in Requests \ Asked : prompt[r] = "none" /\ row[r] = "none" /\ reply[r] = "none"

(* What waits has its prompt and its row open, or the log took neither. *)
PendingIsOpen ==
    /\ pending # {} => Serving
    /\ \A r \in pending : \/ prompt[r] = "requested" /\ row[r] = "open"
                          \/ prompt[r] = "none" /\ row[r] = "none"

DrainingIsOpen ==
    /\ draining # {} => up
    /\ \A r \in draining : row[r] = "open"

(* An open row has not been decided, but for a boot that died after it had *)
(* logged its deny.                                                        *)
OpenIsUndecided ==
    \A r \in Requests : row[r] = "open" => prompt[r] \in {"requested", "deny"} /\ reply[r] = "none"

Excused == torn \cup unlogged

(* OpenIsAwaited, also while the server does not serve. *)
OpenIsFound ==
    \A r \in Asked \ Excused : prompt[r] = "requested" =>
        r \in pending \cup draining \/ (~up /\ row[r] = "open")

(* RowsMirrorLog, also while the server does not serve. *)
RowsFollowLog ==
    \A r \in Asked \ Excused :
        /\ prompt[r] = "requested" => row[r] = "open"
        /\ row[r] = "open" => prompt[r] = "requested" \/ ~up \/ r \in draining

IInv ==
    /\ TypeOK /\ Unasked /\ PendingIsOpen /\ DrainingIsOpen /\ OpenIsUndecided
    /\ OpenIsFound /\ RowsFollowLog /\ DecisionsAgree

LEMMA TurnStartsKeeps ==
    ASSUME IInv, TurnStarts
    PROVE  IInv'
<1> USE PermissionAssumption DEF IInv, TypeOK, Asked, Requests, Decisions, Serving, Resident
<1>1. TypeOK' BY DEF TurnStarts, PendingIsOpen, DrainingIsOpen
<1>2. Unasked' BY DEF Unasked, TurnStarts
<1>3. PendingIsOpen' BY DEF PendingIsOpen, DrainingIsOpen, Unasked, TurnStarts
<1>4. DrainingIsOpen' BY DEF DrainingIsOpen, PendingIsOpen, TurnStarts
<1>5. OpenIsUndecided' BY DEF OpenIsUndecided, PendingIsOpen, Unasked,
           TurnStarts
<1>6. OpenIsFound' BY DEF OpenIsFound, RowsFollowLog, PendingIsOpen,
           DrainingIsOpen, Excused, TurnStarts
<1>7. RowsFollowLog' BY DEF RowsFollowLog, PendingIsOpen, DrainingIsOpen,
           Excused, TurnStarts
<1>8. DecisionsAgree' BY DEF DecisionsAgree, OpenIsUndecided, PendingIsOpen,
           DrainingIsOpen, Unasked, TurnStarts
<1> QED BY <1>1, <1>2, <1>3, <1>4, <1>5, <1>6, <1>7, <1>8

LEMMA AwaitPermissionKeeps ==
    ASSUME IInv, AwaitPermission
    PROVE  IInv'
<1> DEFINE r == asked + 1
<1> USE PermissionAssumption DEF IInv, TypeOK, Asked, Requests, Decisions, Serving, Resident
<1>1. /\ r \in Requests /\ r \notin Asked /\ asked' = r /\ Asked' = Asked \cup {r}
      /\ Serving /\ Resident
      /\ prompt[r] = "none" /\ row[r] = "none" /\ reply[r] = "none"
      /\ UNCHANGED <<running, session, draining, up, writable, crashes, lapses, torn>>
  BY DEF AwaitPermission, Unasked
<1>2. CASE (\E d \in Decisions : Replies({r}, d)) /\ UNCHANGED <<pending, prompt, row, unlogged>>
  <2>1. PICK d \in Decisions : Replies({r}, d) BY <1>2
  <2>2. /\ reply' \in [Requests -> {"none"} \cup Decisions] /\ reply'[r] = d
        /\ \A q \in Requests \ {r} : reply'[q] = reply[q]
    BY <1>1, <2>1 DEF Replies
  <2>3. TypeOK' BY <1>1, <1>2, <2>2
  <2>4. Unasked' BY <1>1, <1>2, <2>2 DEF Unasked
  <2>5. PendingIsOpen' /\ DrainingIsOpen' BY <1>1, <1>2 DEF PendingIsOpen, DrainingIsOpen
  <2>6. OpenIsUndecided' BY <1>1, <1>2, <2>2 DEF OpenIsUndecided
  <2>7. OpenIsFound' /\ RowsFollowLog' BY <1>1, <1>2 DEF OpenIsFound, RowsFollowLog, Excused
  <2>8. DecisionsAgree' BY <1>1, <1>2, <2>2 DEF DecisionsAgree
  <2> QED BY <2>3, <2>4, <2>5, <2>6, <2>7, <2>8
<1>3. CASE /\ pending' = pending \cup {r} /\ UNCHANGED reply
           /\ IF writable THEN /\ prompt' = [prompt EXCEPT ![r] = "requested"]
                               /\ row' = [row EXCEPT ![r] = "open"]
                               /\ UNCHANGED unlogged
                          ELSE unlogged' = unlogged \cup {r} /\ UNCHANGED <<prompt, row>>
  <2>1. TypeOK'
    <3>1. pending' \cup draining' \cup torn' \cup unlogged' \subseteq Asked' BY <1>1, <1>3
    <3>2. /\ prompt' \in [Requests -> {"none", "requested"} \cup Decisions]
          /\ row' \in [Requests -> {"none", "open"} \cup Decisions]
      BY <1>1, <1>3
    <3>3. \A q \in pending' : reply'[q] = "none" BY <1>1, <1>3
    <3> QED BY <1>1, <1>3, <3>1, <3>2, <3>3
  <2>2. Unasked' BY <1>1, <1>3 DEF Unasked
  <2>3. PendingIsOpen' /\ DrainingIsOpen' BY <1>1, <1>3 DEF PendingIsOpen, DrainingIsOpen
  <2>4. OpenIsUndecided' BY <1>1, <1>3 DEF OpenIsUndecided
  <2>5. OpenIsFound' BY <1>1, <1>3 DEF OpenIsFound, Excused
  <2>6. RowsFollowLog' BY <1>1, <1>3 DEF RowsFollowLog, Excused
  <2>7. DecisionsAgree' BY <1>1, <1>3 DEF DecisionsAgree
  <2> QED BY <2>1, <2>2, <2>3, <2>4, <2>5, <2>6, <2>7
<1> QED BY <1>2, <1>3 DEF AwaitPermission

LEMMA AwaitPermissionTornKeeps ==
    ASSUME IInv, AwaitPermissionTorn
    PROVE  IInv'
<1> USE PermissionAssumption DEF IInv, TypeOK, Asked, Requests, Decisions, Serving, Resident
<1>1. TypeOK'
  <2>1. asked' \in 0 .. MaxRequests /\ crashes' \in 0 .. MaxCrashes /\ lapses' \in 0 .. MaxLapses
    BY DEF AwaitPermissionTorn, Dies
  <2>2. pending' \cup draining' \cup torn' \cup unlogged' \subseteq Asked'
    BY DEF AwaitPermissionTorn, Dies
  <2>3. /\ prompt' \in [Requests -> {"none", "requested"} \cup Decisions]
       /\ row' \in [Requests -> {"none", "open"} \cup Decisions]
    BY DEF AwaitPermissionTorn, Dies
  <2>4. reply' \in [Requests -> {"none"} \cup Decisions] /\ \A q \in pending' : reply'[q] = "none"
    BY DEF AwaitPermissionTorn, Dies
  <2>5. /\ session' \in {"resident", "cold", "closed"}
       /\ running' \in BOOLEAN /\ up' \in BOOLEAN /\ writable' \in BOOLEAN
    BY DEF AwaitPermissionTorn, Dies
  <2>6. running' => Resident'
    BY DEF AwaitPermissionTorn, Dies, PendingIsOpen, DrainingIsOpen
  <2> QED BY <2>1, <2>2, <2>3, <2>4, <2>5, <2>6
<1>2. Unasked' BY DEF Unasked, AwaitPermissionTorn, Dies
<1>3. PendingIsOpen' BY DEF PendingIsOpen, DrainingIsOpen, Unasked,
           AwaitPermissionTorn, Dies
<1>4. DrainingIsOpen' BY DEF DrainingIsOpen, PendingIsOpen,
           AwaitPermissionTorn, Dies
<1>5. OpenIsUndecided' BY DEF OpenIsUndecided, PendingIsOpen, Unasked,
           AwaitPermissionTorn, Dies
<1>6. OpenIsFound' BY DEF OpenIsFound, RowsFollowLog, PendingIsOpen,
           DrainingIsOpen, Excused, AwaitPermissionTorn, Dies
<1>7. RowsFollowLog' BY DEF RowsFollowLog, PendingIsOpen, DrainingIsOpen,
           Excused, AwaitPermissionTorn, Dies
<1>8. DecisionsAgree' BY DEF DecisionsAgree, OpenIsUndecided, PendingIsOpen,
           DrainingIsOpen, Unasked, AwaitPermissionTorn, Dies
<1> QED BY <1>1, <1>2, <1>3, <1>4, <1>5, <1>6, <1>7, <1>8

LEMMA RespondPermissionKeeps ==
    ASSUME IInv, NEW r \in Requests, RespondPermission(r)
    PROVE  IInv'
<1> USE PermissionAssumption DEF IInv, TypeOK, Asked, Requests, Decisions, Serving, Resident
<1>1. TypeOK'
  <2>1. asked' \in 0 .. MaxRequests /\ crashes' \in 0 .. MaxCrashes /\ lapses' \in 0 .. MaxLapses
    BY DEF RespondPermission, Settles, Replies, EmitsResolved, ResolvesRows
  <2>2. pending' \cup draining' \cup torn' \cup unlogged' \subseteq Asked'
    <3>1. PICK d \in Decisions : Settles({r}, d) BY DEF RespondPermission
    <3>2. pending' \subseteq pending /\ unlogged' \subseteq unlogged \cup pending
      BY <3>1 DEF RespondPermission, Settles, EmitsResolved
    <3> QED BY <3>2 DEF RespondPermission
  <2>3. /\ prompt' \in [Requests -> {"none", "requested"} \cup Decisions]
       /\ row' \in [Requests -> {"none", "open"} \cup Decisions]
    BY DEF RespondPermission, Settles, Replies, EmitsResolved, ResolvesRows
  <2>4. reply' \in [Requests -> {"none"} \cup Decisions] /\ \A q \in pending' : reply'[q] = "none"
    BY DEF RespondPermission, Settles, Replies, EmitsResolved, ResolvesRows
  <2>5. /\ session' \in {"resident", "cold", "closed"}
       /\ running' \in BOOLEAN /\ up' \in BOOLEAN /\ writable' \in BOOLEAN
    BY DEF RespondPermission, Settles, Replies, EmitsResolved, ResolvesRows
  <2>6. running' => Resident'
    BY DEF RespondPermission, Settles, Replies, EmitsResolved, ResolvesRows,
           PendingIsOpen, DrainingIsOpen
  <2> QED BY <2>1, <2>2, <2>3, <2>4, <2>5, <2>6
<1>2. Unasked' BY DEF Unasked, RespondPermission, Settles, Replies,
           EmitsResolved, ResolvesRows
<1>3. PendingIsOpen' BY DEF PendingIsOpen, DrainingIsOpen, Unasked,
           RespondPermission, Settles, Replies, EmitsResolved, ResolvesRows
<1>4. DrainingIsOpen' BY DEF DrainingIsOpen, PendingIsOpen, RespondPermission,
           Settles, Replies, EmitsResolved, ResolvesRows
<1>5. OpenIsUndecided' BY DEF OpenIsUndecided, PendingIsOpen, Unasked,
           RespondPermission, Settles, Replies, EmitsResolved, ResolvesRows
<1>6. OpenIsFound' BY DEF OpenIsFound, RowsFollowLog, PendingIsOpen,
           DrainingIsOpen, Excused, RespondPermission, Settles, Replies,
           EmitsResolved, ResolvesRows
<1>7. RowsFollowLog' BY DEF RowsFollowLog, PendingIsOpen, DrainingIsOpen,
           Excused, RespondPermission, Settles, Replies, EmitsResolved,
           ResolvesRows
<1>8. DecisionsAgree' BY DEF DecisionsAgree, OpenIsUndecided, PendingIsOpen,
           DrainingIsOpen, Unasked, RespondPermission, Settles, Replies,
           EmitsResolved, ResolvesRows
<1> QED BY <1>1, <1>2, <1>3, <1>4, <1>5, <1>6, <1>7, <1>8

LEMMA RespondPermissionTornKeeps ==
    ASSUME IInv, NEW r \in Requests, RespondPermissionTorn(r)
    PROVE  IInv'
<1> USE PermissionAssumption DEF IInv, TypeOK, Asked, Requests, Decisions, Serving, Resident
<1>1. TypeOK'
  <2>1. asked' \in 0 .. MaxRequests /\ crashes' \in 0 .. MaxCrashes /\ lapses' \in 0 .. MaxLapses
    BY DEF RespondPermissionTorn, Dies, ResolvesRows
  <2>2. pending' \cup draining' \cup torn' \cup unlogged' \subseteq Asked'
    BY DEF RespondPermissionTorn, Dies, ResolvesRows
  <2>3. /\ prompt' \in [Requests -> {"none", "requested"} \cup Decisions]
       /\ row' \in [Requests -> {"none", "open"} \cup Decisions]
    BY DEF RespondPermissionTorn, Dies, ResolvesRows
  <2>4. reply' \in [Requests -> {"none"} \cup Decisions] /\ \A q \in pending' : reply'[q] = "none"
    BY DEF RespondPermissionTorn, Dies, ResolvesRows
  <2>5. /\ session' \in {"resident", "cold", "closed"}
       /\ running' \in BOOLEAN /\ up' \in BOOLEAN /\ writable' \in BOOLEAN
    BY DEF RespondPermissionTorn, Dies, ResolvesRows
  <2>6. running' => Resident'
    BY DEF RespondPermissionTorn, Dies, ResolvesRows, PendingIsOpen,
           DrainingIsOpen
  <2> QED BY <2>1, <2>2, <2>3, <2>4, <2>5, <2>6
<1>2. Unasked' BY DEF Unasked, RespondPermissionTorn, Dies, ResolvesRows
<1>3. PendingIsOpen' BY DEF PendingIsOpen, DrainingIsOpen, Unasked,
           RespondPermissionTorn, Dies, ResolvesRows
<1>4. DrainingIsOpen' BY DEF DrainingIsOpen, PendingIsOpen,
           RespondPermissionTorn, Dies, ResolvesRows
<1>5. OpenIsUndecided' BY DEF OpenIsUndecided, PendingIsOpen, Unasked,
           RespondPermissionTorn, Dies, ResolvesRows
<1>6. OpenIsFound' BY DEF OpenIsFound, RowsFollowLog, PendingIsOpen,
           DrainingIsOpen, Excused, RespondPermissionTorn, Dies, ResolvesRows
<1>7. RowsFollowLog' BY DEF RowsFollowLog, PendingIsOpen, DrainingIsOpen,
           Excused, RespondPermissionTorn, Dies, ResolvesRows
<1>8. DecisionsAgree' BY DEF DecisionsAgree, OpenIsUndecided, PendingIsOpen,
           DrainingIsOpen, Unasked, RespondPermissionTorn, Dies, ResolvesRows
<1> QED BY <1>1, <1>2, <1>3, <1>4, <1>5, <1>6, <1>7, <1>8

LEMMA TurnCompletesKeeps ==
    ASSUME IInv, TurnCompletes
    PROVE  IInv'
<1> USE PermissionAssumption DEF IInv, TypeOK, Asked, Requests, Decisions, Serving, Resident
<1>1. TypeOK' BY DEF TurnCompletes, PendingIsOpen, DrainingIsOpen
<1>2. Unasked' BY DEF Unasked, TurnCompletes
<1>3. PendingIsOpen' BY DEF PendingIsOpen, DrainingIsOpen, Unasked,
           TurnCompletes
<1>4. DrainingIsOpen' BY DEF DrainingIsOpen, PendingIsOpen, TurnCompletes
<1>5. OpenIsUndecided' BY DEF OpenIsUndecided, PendingIsOpen, Unasked,
           TurnCompletes
<1>6. OpenIsFound' BY DEF OpenIsFound, RowsFollowLog, PendingIsOpen,
           DrainingIsOpen, Excused, TurnCompletes
<1>7. RowsFollowLog' BY DEF RowsFollowLog, PendingIsOpen, DrainingIsOpen,
           Excused, TurnCompletes
<1>8. DecisionsAgree' BY DEF DecisionsAgree, OpenIsUndecided, PendingIsOpen,
           DrainingIsOpen, Unasked, TurnCompletes
<1> QED BY <1>1, <1>2, <1>3, <1>4, <1>5, <1>6, <1>7, <1>8

LEMMA TurnAbortsKeeps ==
    ASSUME IInv, TurnAborts
    PROVE  IInv'
<1> USE PermissionAssumption DEF IInv, TypeOK, Asked, Requests, Decisions, Serving, Resident
<1>1. TypeOK'
  <2>1. asked' \in 0 .. MaxRequests /\ crashes' \in 0 .. MaxCrashes /\ lapses' \in 0 .. MaxLapses
    BY DEF TurnAborts, DrainsPending, Settles, Replies, EmitsResolved,
           ResolvesRows
  <2>2. pending' \cup draining' \cup torn' \cup unlogged' \subseteq Asked'
    BY DEF TurnAborts, DrainsPending, Settles, Replies, EmitsResolved,
           ResolvesRows
  <2>3. /\ prompt' \in [Requests -> {"none", "requested"} \cup Decisions]
       /\ row' \in [Requests -> {"none", "open"} \cup Decisions]
    BY DEF TurnAborts, DrainsPending, Settles, Replies, EmitsResolved,
           ResolvesRows
  <2>4. reply' \in [Requests -> {"none"} \cup Decisions] /\ \A q \in pending' : reply'[q] = "none"
    BY DEF TurnAborts, DrainsPending, Settles, Replies, EmitsResolved,
           ResolvesRows
  <2>5. /\ session' \in {"resident", "cold", "closed"}
       /\ running' \in BOOLEAN /\ up' \in BOOLEAN /\ writable' \in BOOLEAN
    BY DEF TurnAborts, DrainsPending, Settles, Replies, EmitsResolved,
           ResolvesRows
  <2>6. running' => Resident'
    BY DEF TurnAborts, DrainsPending, Settles, Replies, EmitsResolved,
           ResolvesRows, PendingIsOpen, DrainingIsOpen
  <2> QED BY <2>1, <2>2, <2>3, <2>4, <2>5, <2>6
<1>2. Unasked' BY DEF Unasked, TurnAborts, DrainsPending, Settles, Replies,
           EmitsResolved, ResolvesRows
<1>3. PendingIsOpen' BY DEF PendingIsOpen, DrainingIsOpen, Unasked,
           TurnAborts, DrainsPending, Settles, Replies, EmitsResolved,
           ResolvesRows
<1>4. DrainingIsOpen' BY DEF DrainingIsOpen, PendingIsOpen, TurnAborts,
           DrainsPending, Settles, Replies, EmitsResolved, ResolvesRows
<1>5. OpenIsUndecided' BY DEF OpenIsUndecided, PendingIsOpen, Unasked,
           TurnAborts, DrainsPending, Settles, Replies, EmitsResolved,
           ResolvesRows
<1>6. OpenIsFound' BY DEF OpenIsFound, RowsFollowLog, PendingIsOpen,
           DrainingIsOpen, Excused, TurnAborts, DrainsPending, Settles,
           Replies, EmitsResolved, ResolvesRows
<1>7. RowsFollowLog' BY DEF RowsFollowLog, PendingIsOpen, DrainingIsOpen,
           Excused, TurnAborts, DrainsPending, Settles, Replies,
           EmitsResolved, ResolvesRows
<1>8. DecisionsAgree' BY DEF DecisionsAgree, OpenIsUndecided, PendingIsOpen,
           DrainingIsOpen, Unasked, TurnAborts, DrainsPending, Settles,
           Replies, EmitsResolved, ResolvesRows
<1> QED BY <1>1, <1>2, <1>3, <1>4, <1>5, <1>6, <1>7, <1>8

LEMMA TurnAbortsTornKeeps ==
    ASSUME IInv, TurnAbortsTorn
    PROVE  IInv'
<1> USE PermissionAssumption DEF IInv, TypeOK, Asked, Requests, Decisions, Serving, Resident
<1>1. TypeOK'
  <2>1. asked' \in 0 .. MaxRequests /\ crashes' \in 0 .. MaxCrashes /\ lapses' \in 0 .. MaxLapses
    BY DEF TurnAbortsTorn, Dies, ResolvesRows
  <2>2. pending' \cup draining' \cup torn' \cup unlogged' \subseteq Asked'
    BY DEF TurnAbortsTorn, Dies, ResolvesRows
  <2>3. /\ prompt' \in [Requests -> {"none", "requested"} \cup Decisions]
       /\ row' \in [Requests -> {"none", "open"} \cup Decisions]
    BY DEF TurnAbortsTorn, Dies, ResolvesRows
  <2>4. reply' \in [Requests -> {"none"} \cup Decisions] /\ \A q \in pending' : reply'[q] = "none"
    BY DEF TurnAbortsTorn, Dies, ResolvesRows
  <2>5. /\ session' \in {"resident", "cold", "closed"}
       /\ running' \in BOOLEAN /\ up' \in BOOLEAN /\ writable' \in BOOLEAN
    BY DEF TurnAbortsTorn, Dies, ResolvesRows
  <2>6. running' => Resident'
    BY DEF TurnAbortsTorn, Dies, ResolvesRows, PendingIsOpen, DrainingIsOpen
  <2> QED BY <2>1, <2>2, <2>3, <2>4, <2>5, <2>6
<1>2. Unasked' BY DEF Unasked, TurnAbortsTorn, Dies, ResolvesRows
<1>3. PendingIsOpen' BY DEF PendingIsOpen, DrainingIsOpen, Unasked,
           TurnAbortsTorn, Dies, ResolvesRows
<1>4. DrainingIsOpen' BY DEF DrainingIsOpen, PendingIsOpen, TurnAbortsTorn,
           Dies, ResolvesRows
<1>5. OpenIsUndecided' BY DEF OpenIsUndecided, PendingIsOpen, Unasked,
           TurnAbortsTorn, Dies, ResolvesRows
<1>6. OpenIsFound' BY DEF OpenIsFound, RowsFollowLog, PendingIsOpen,
           DrainingIsOpen, Excused, TurnAbortsTorn, Dies, ResolvesRows
<1>7. RowsFollowLog' BY DEF RowsFollowLog, PendingIsOpen, DrainingIsOpen,
           Excused, TurnAbortsTorn, Dies, ResolvesRows
<1>8. DecisionsAgree' BY DEF DecisionsAgree, OpenIsUndecided, PendingIsOpen,
           DrainingIsOpen, Unasked, TurnAbortsTorn, Dies, ResolvesRows
<1> QED BY <1>1, <1>2, <1>3, <1>4, <1>5, <1>6, <1>7, <1>8

LEMMA CloseKeeps ==
    ASSUME IInv, Close
    PROVE  IInv'
<1> USE PermissionAssumption DEF IInv, TypeOK, Asked, Requests, Decisions, Serving, Resident
<1>1. TypeOK' BY DEF Close, PendingIsOpen, DrainingIsOpen
<1>2. Unasked' BY DEF Unasked, Close
<1>3. PendingIsOpen' BY DEF PendingIsOpen, DrainingIsOpen, Unasked, Close
<1>4. DrainingIsOpen' BY DEF DrainingIsOpen, PendingIsOpen, Close
<1>5. OpenIsUndecided' BY DEF OpenIsUndecided, PendingIsOpen, Unasked, Close
<1>6. OpenIsFound' BY DEF OpenIsFound, RowsFollowLog, PendingIsOpen,
           DrainingIsOpen, Excused, Close
<1>7. RowsFollowLog' BY DEF RowsFollowLog, PendingIsOpen, DrainingIsOpen,
           Excused, Close
<1>8. DecisionsAgree' BY DEF DecisionsAgree, OpenIsUndecided, PendingIsOpen,
           DrainingIsOpen, Unasked, Close
<1> QED BY <1>1, <1>2, <1>3, <1>4, <1>5, <1>6, <1>7, <1>8

LEMMA CrashKeeps ==
    ASSUME IInv, Crash
    PROVE  IInv'
<1> USE PermissionAssumption DEF IInv, TypeOK, Asked, Requests, Decisions, Serving, Resident
<1>1. TypeOK'
  <2>1. asked' \in 0 .. MaxRequests /\ crashes' \in 0 .. MaxCrashes /\ lapses' \in 0 .. MaxLapses
    BY DEF Crash, Dies
  <2>2. pending' \cup draining' \cup torn' \cup unlogged' \subseteq Asked'
    BY DEF Crash, Dies
  <2>3. /\ prompt' \in [Requests -> {"none", "requested"} \cup Decisions]
       /\ row' \in [Requests -> {"none", "open"} \cup Decisions]
    BY DEF Crash, Dies
  <2>4. reply' \in [Requests -> {"none"} \cup Decisions] /\ \A q \in pending' : reply'[q] = "none"
    BY DEF Crash, Dies
  <2>5. /\ session' \in {"resident", "cold", "closed"}
       /\ running' \in BOOLEAN /\ up' \in BOOLEAN /\ writable' \in BOOLEAN
    BY DEF Crash, Dies
  <2>6. running' => Resident'
    BY DEF Crash, Dies, PendingIsOpen, DrainingIsOpen
  <2> QED BY <2>1, <2>2, <2>3, <2>4, <2>5, <2>6
<1>2. Unasked' BY DEF Unasked, Crash, Dies
<1>3. PendingIsOpen' BY DEF PendingIsOpen, DrainingIsOpen, Unasked, Crash,
           Dies
<1>4. DrainingIsOpen' BY DEF DrainingIsOpen, PendingIsOpen, Crash, Dies
<1>5. OpenIsUndecided' BY DEF OpenIsUndecided, PendingIsOpen, Unasked, Crash,
           Dies
<1>6. OpenIsFound' BY DEF OpenIsFound, RowsFollowLog, PendingIsOpen,
           DrainingIsOpen, Excused, Crash, Dies
<1>7. RowsFollowLog' BY DEF RowsFollowLog, PendingIsOpen, DrainingIsOpen,
           Excused, Crash, Dies
<1>8. DecisionsAgree' BY DEF DecisionsAgree, OpenIsUndecided, PendingIsOpen,
           DrainingIsOpen, Unasked, Crash, Dies
<1> QED BY <1>1, <1>2, <1>3, <1>4, <1>5, <1>6, <1>7, <1>8

LEMMA BootKeeps ==
    ASSUME IInv, Boot
    PROVE  IInv'
<1> USE PermissionAssumption DEF IInv, TypeOK, Asked, Requests, Decisions, Serving, Resident
<1>1. TypeOK' BY DEF Boot, Unresolved, PendingIsOpen, DrainingIsOpen, Unasked
<1>2. Unasked' BY DEF Unasked, Boot, Unresolved
<1>3. PendingIsOpen' BY DEF PendingIsOpen, DrainingIsOpen, Unasked, Boot,
           Unresolved
<1>4. DrainingIsOpen' BY DEF DrainingIsOpen, PendingIsOpen, Boot, Unresolved
<1>5. OpenIsUndecided' BY DEF OpenIsUndecided, PendingIsOpen, Unasked, Boot,
           Unresolved
<1>6. OpenIsFound' BY DEF OpenIsFound, RowsFollowLog, PendingIsOpen,
           DrainingIsOpen, Excused, Boot, Unresolved
<1>7. RowsFollowLog' BY DEF RowsFollowLog, PendingIsOpen, DrainingIsOpen,
           Excused, Boot, Unresolved
<1>8. DecisionsAgree' BY DEF DecisionsAgree, OpenIsUndecided, PendingIsOpen,
           DrainingIsOpen, Unasked, Boot, Unresolved
<1> QED BY <1>1, <1>2, <1>3, <1>4, <1>5, <1>6, <1>7, <1>8

LEMMA BootDrainsKeeps ==
    ASSUME IInv, NEW r \in Requests, BootDrains(r)
    PROVE  IInv'
<1> USE PermissionAssumption DEF IInv, TypeOK, Asked, Requests, Decisions, Serving, Resident
<1>1. TypeOK'
  <2>1. asked' \in 0 .. MaxRequests /\ crashes' \in 0 .. MaxCrashes /\ lapses' \in 0 .. MaxLapses
    BY DEF BootDrains, BootDenies, EmitsResolved, ResolvesRows
  <2>2. pending' \cup draining' \cup torn' \cup unlogged' \subseteq Asked'
    BY DEF BootDrains, BootDenies, EmitsResolved, ResolvesRows
  <2>3. /\ prompt' \in [Requests -> {"none", "requested"} \cup Decisions]
       /\ row' \in [Requests -> {"none", "open"} \cup Decisions]
    BY DEF BootDrains, BootDenies, EmitsResolved, ResolvesRows
  <2>4. reply' \in [Requests -> {"none"} \cup Decisions] /\ \A q \in pending' : reply'[q] = "none"
    BY DEF BootDrains, BootDenies, EmitsResolved, ResolvesRows
  <2>5. /\ session' \in {"resident", "cold", "closed"}
       /\ running' \in BOOLEAN /\ up' \in BOOLEAN /\ writable' \in BOOLEAN
    BY DEF BootDrains, BootDenies, EmitsResolved, ResolvesRows
  <2>6. running' => Resident'
    BY DEF BootDrains, BootDenies, EmitsResolved, ResolvesRows, PendingIsOpen,
           DrainingIsOpen
  <2> QED BY <2>1, <2>2, <2>3, <2>4, <2>5, <2>6
<1>2. Unasked' BY DEF Unasked, BootDrains, BootDenies, EmitsResolved,
           ResolvesRows
<1>3. PendingIsOpen' BY DEF PendingIsOpen, DrainingIsOpen, Unasked,
           BootDrains, BootDenies, EmitsResolved, ResolvesRows
<1>4. DrainingIsOpen' BY DEF DrainingIsOpen, PendingIsOpen, BootDrains,
           BootDenies, EmitsResolved, ResolvesRows
<1>5. OpenIsUndecided' BY DEF OpenIsUndecided, PendingIsOpen, Unasked,
           BootDrains, BootDenies, EmitsResolved, ResolvesRows
<1>6. OpenIsFound' BY DEF OpenIsFound, RowsFollowLog, PendingIsOpen,
           DrainingIsOpen, Excused, BootDrains, BootDenies, EmitsResolved,
           ResolvesRows
<1>7. RowsFollowLog' BY DEF RowsFollowLog, PendingIsOpen, DrainingIsOpen,
           Excused, BootDrains, BootDenies, EmitsResolved, ResolvesRows
<1>8. DecisionsAgree' BY DEF DecisionsAgree, OpenIsUndecided, PendingIsOpen,
           DrainingIsOpen, Unasked, BootDrains, BootDenies, EmitsResolved,
           ResolvesRows
<1> QED BY <1>1, <1>2, <1>3, <1>4, <1>5, <1>6, <1>7, <1>8

LEMMA BootDrainsTornKeeps ==
    ASSUME IInv, NEW r \in Requests, BootDrainsTorn(r)
    PROVE  IInv'
<1> USE PermissionAssumption DEF IInv, TypeOK, Asked, Requests, Decisions, Serving, Resident
<1>1. TypeOK'
  <2>1. asked' \in 0 .. MaxRequests /\ crashes' \in 0 .. MaxCrashes /\ lapses' \in 0 .. MaxLapses
    BY DEF BootDrainsTorn, Dies, EmitsResolved
  <2>2. pending' \cup draining' \cup torn' \cup unlogged' \subseteq Asked'
    BY DEF BootDrainsTorn, Dies, EmitsResolved
  <2>3. /\ prompt' \in [Requests -> {"none", "requested"} \cup Decisions]
       /\ row' \in [Requests -> {"none", "open"} \cup Decisions]
    BY DEF BootDrainsTorn, Dies, EmitsResolved
  <2>4. reply' \in [Requests -> {"none"} \cup Decisions] /\ \A q \in pending' : reply'[q] = "none"
    BY DEF BootDrainsTorn, Dies, EmitsResolved
  <2>5. /\ session' \in {"resident", "cold", "closed"}
       /\ running' \in BOOLEAN /\ up' \in BOOLEAN /\ writable' \in BOOLEAN
    BY DEF BootDrainsTorn, Dies, EmitsResolved
  <2>6. running' => Resident'
    BY DEF BootDrainsTorn, Dies, EmitsResolved, PendingIsOpen, DrainingIsOpen
  <2> QED BY <2>1, <2>2, <2>3, <2>4, <2>5, <2>6
<1>2. Unasked' BY DEF Unasked, BootDrainsTorn, Dies, EmitsResolved
<1>3. PendingIsOpen' BY DEF PendingIsOpen, DrainingIsOpen, Unasked,
           BootDrainsTorn, Dies, EmitsResolved
<1>4. DrainingIsOpen' BY DEF DrainingIsOpen, PendingIsOpen, BootDrainsTorn,
           Dies, EmitsResolved
<1>5. OpenIsUndecided' BY DEF OpenIsUndecided, PendingIsOpen, Unasked,
           BootDrainsTorn, Dies, EmitsResolved
<1>6. OpenIsFound' BY DEF OpenIsFound, RowsFollowLog, PendingIsOpen,
           DrainingIsOpen, Excused, BootDrainsTorn, Dies, EmitsResolved
<1>7. RowsFollowLog' BY DEF RowsFollowLog, PendingIsOpen, DrainingIsOpen,
           Excused, BootDrainsTorn, Dies, EmitsResolved
<1>8. DecisionsAgree' BY DEF DecisionsAgree, OpenIsUndecided, PendingIsOpen,
           DrainingIsOpen, Unasked, BootDrainsTorn, Dies, EmitsResolved
<1> QED BY <1>1, <1>2, <1>3, <1>4, <1>5, <1>6, <1>7, <1>8

LEMMA LogChangesKeeps ==
    ASSUME IInv, LogChanges
    PROVE  IInv'
<1> USE PermissionAssumption DEF IInv, TypeOK, Asked, Requests, Decisions, Serving, Resident
<1>1. TypeOK' BY DEF LogChanges, PendingIsOpen, DrainingIsOpen
<1>2. Unasked' BY DEF Unasked, LogChanges
<1>3. PendingIsOpen' BY DEF PendingIsOpen, DrainingIsOpen, Unasked, LogChanges
<1>4. DrainingIsOpen' BY DEF DrainingIsOpen, PendingIsOpen, LogChanges
<1>5. OpenIsUndecided' BY DEF OpenIsUndecided, PendingIsOpen, Unasked,
           LogChanges
<1>6. OpenIsFound' BY DEF OpenIsFound, RowsFollowLog, PendingIsOpen,
           DrainingIsOpen, Excused, LogChanges
<1>7. RowsFollowLog' BY DEF RowsFollowLog, PendingIsOpen, DrainingIsOpen,
           Excused, LogChanges
<1>8. DecisionsAgree' BY DEF DecisionsAgree, OpenIsUndecided, PendingIsOpen,
           DrainingIsOpen, Unasked, LogChanges
<1> QED BY <1>1, <1>2, <1>3, <1>4, <1>5, <1>6, <1>7, <1>8

-----------------------------------------------------------------------------
LEMMA InitHolds == Init => IInv
<1> SUFFICES ASSUME Init PROVE IInv
  OBVIOUS
<1> USE PermissionAssumption DEF Init, Asked, Requests, Decisions, Serving, Resident
<1>1. TypeOK
  <2>1. /\ asked \in 0 .. MaxRequests /\ crashes \in 0 .. MaxCrashes /\ lapses \in 0 .. MaxLapses
        /\ pending \cup draining \cup torn \cup unlogged = {}
    OBVIOUS
  <2>2. /\ prompt \in [Requests -> {"none", "requested"} \cup Decisions]
        /\ row \in [Requests -> {"none", "open"} \cup Decisions]
        /\ reply \in [Requests -> {"none"} \cup Decisions]
    OBVIOUS
  <2>3. running \in BOOLEAN /\ up \in BOOLEAN /\ writable \in BOOLEAN /\ (running => Resident)
    OBVIOUS
  <2> QED BY <2>1, <2>2, <2>3 DEF TypeOK
<1>2. Unasked /\ PendingIsOpen /\ DrainingIsOpen
  BY DEF Unasked, PendingIsOpen, DrainingIsOpen
<1>3. OpenIsUndecided /\ OpenIsFound /\ RowsFollowLog /\ DecisionsAgree
  BY DEF OpenIsUndecided, OpenIsFound, RowsFollowLog, DecisionsAgree
<1> QED BY <1>1, <1>2, <1>3 DEF IInv

LEMMA Inductive == IInv /\ [Next]_vars => IInv'
<1> SUFFICES ASSUME IInv, [Next]_vars PROVE IInv'
  OBVIOUS
<1>1. CASE Next
  <2>1. CASE TurnStarts \/ TurnCompletes \/ TurnAborts \/ TurnAbortsTorn \/ Close
    BY <2>1, TurnStartsKeeps, TurnCompletesKeeps, TurnAbortsKeeps, TurnAbortsTornKeeps, CloseKeeps
  <2>2. CASE AwaitPermission \/ AwaitPermissionTorn
    BY <2>2, AwaitPermissionKeeps, AwaitPermissionTornKeeps
  <2>3. CASE Crash \/ Boot \/ LogChanges
    BY <2>3, CrashKeeps, BootKeeps, LogChangesKeeps
  <2>4. CASE \E r \in Requests : RespondPermission(r) \/ RespondPermissionTorn(r)
    BY <2>4, RespondPermissionKeeps, RespondPermissionTornKeeps
  <2>5. CASE \E r \in Requests : BootDrains(r) \/ BootDrainsTorn(r)
    BY <2>5, BootDrainsKeeps, BootDrainsTornKeeps
  <2> QED BY <1>1, <2>1, <2>2, <2>3, <2>4, <2>5 DEF Next
<1>2. CASE UNCHANGED vars
  BY <1>2 DEF vars, IInv, TypeOK, Unasked, PendingIsOpen, DrainingIsOpen, OpenIsUndecided,
              OpenIsFound, RowsFollowLog, DecisionsAgree, Excused, Asked, Serving, Resident
<1> QED BY <1>1, <1>2

LEMMA Invariance == Spec => []IInv
BY InitHolds, Inductive, PTL DEF Spec

(* Types hold, for any bounds. *)
THEOREM TypeCorrect == Spec => []TypeOK
<1>1. IInv => TypeOK BY DEF IInv
<1> QED BY <1>1, Invariance, PTL

(* A prompt that the log shows as open is awaited whenever the server      *)
(* serves (runtime.ts drainPendingPermissions, turn-runner.ts), but for    *)
(* the two named exceptions.                                               *)
THEOREM OpenIsAwaitedAlways == Spec => []OpenIsAwaited
<1>1. IInv => OpenIsAwaited
  BY DEF IInv, TypeOK, OpenIsFound, OpenIsAwaited, Excused, Serving
<1> QED BY <1>1, Invariance, PTL

(* The rows of the pending-permissions table mirror the log.               *)
THEOREM RowsMirrorLogAlways == Spec => []RowsMirrorLog
<1>1. IInv => RowsMirrorLog
  BY DEF IInv, TypeOK, RowsFollowLog, RowsMirrorLog, Excused, Serving
<1> QED BY <1>1, Invariance, PTL

(* No two of the reply, the log and the row hold different decisions.      *)
THEOREM DecisionsAgreeAlways == Spec => []DecisionsAgree
<1>1. IInv => DecisionsAgree BY DEF IInv
<1> QED BY <1>1, Invariance, PTL

-----------------------------------------------------------------------------
(* Decisions stand. *)

(* Neither the log nor a row is written once it has a decision. *)
LEMMA WritesSpareDecided ==
    ASSUME TypeOK, NEW S, NEW d \in Decisions, NEW r \in Requests
    PROVE  /\ EmitsResolved(S, d) => (prompt[r] \in Decisions => prompt'[r] = prompt[r])
           /\ ResolvesRows(S, d) => (row[r] \in Decisions => row'[r] = row[r])
BY DEF TypeOK, EmitsResolved, ResolvesRows, Decisions

(* Who is answered has not been answered yet. *)
LEMMA RepliesSpareAnswered ==
    ASSUME NEW S, NEW d, NEW r \in Requests, \A q \in S : reply[q] = "none",
           Replies(S, d), reply[r] \in Decisions
    PROVE  reply'[r] = reply[r]
BY DEF Replies, Decisions

(* Whoever waits or is being asked anew has no answer, whatever settles it. *)
LEMMA SettlesSparesDecided ==
    ASSUME TypeOK, NEW S \in SUBSET pending, NEW d \in Decisions, NEW r \in Requests,
           Settles(S, d)
    PROVE  Said(r) \subseteq Said(r)'
<1>1. \A q \in S : reply[q] = "none" BY DEF TypeOK
<1>2. Replies(S, d) /\ EmitsResolved(S, d) /\ ResolvesRows(S, d) BY DEF Settles
<1>3. reply[r] \in Decisions => reply'[r] = reply[r] BY <1>1, <1>2, RepliesSpareAnswered
<1>4. prompt[r] \in Decisions => prompt'[r] = prompt[r] BY <1>2, WritesSpareDecided
<1>5. row[r] \in Decisions => row'[r] = row[r] BY <1>2, WritesSpareDecided
<1> QED BY <1>3, <1>4, <1>5 DEF Said

LEMMA AwaitPermissionSparesDecided ==
    ASSUME IInv, AwaitPermission \/ AwaitPermissionTorn, NEW r \in Requests
    PROVE  Said(r) \subseteq Said(r)'
<1> DEFINE new == asked + 1
<1>1. /\ new \in Requests /\ prompt[new] = "none" /\ row[new] = "none" /\ reply[new] = "none"
      /\ prompt \in [Requests -> {"none", "requested"} \cup Decisions]
      /\ row \in [Requests -> {"none", "open"} \cup Decisions]
  BY PermissionAssumption
     DEF AwaitPermission, AwaitPermissionTorn, IInv, Unasked, TypeOK, Asked, Requests
<1>2. CASE r = new
  BY <1>1, <1>2 DEF Said, Decisions
<1>3. CASE r # new
  <2>1. prompt'[r] = prompt[r] /\ row'[r] = row[r] /\ reply'[r] = reply[r]
    BY <1>1, <1>3 DEF AwaitPermission, AwaitPermissionTorn, Replies
  <2> QED BY <2>1 DEF Said
<1> QED BY <1>2, <1>3

LEMMA DecisionsStay ==
    ASSUME IInv, [Next]_vars, NEW r \in Requests
    PROVE  Said(r) \subseteq Said(r)'
<1> USE DEF IInv
<1>1. "deny" \in Decisions BY DEF Decisions
<1>2. CASE AwaitPermission \/ AwaitPermissionTorn
  BY <1>2, AwaitPermissionSparesDecided
<1>3. ASSUME NEW q \in Requests, RespondPermission(q) PROVE Said(r) \subseteq Said(r)'
  <2>1. PICK d \in Decisions : Settles({q}, d) BY <1>3 DEF RespondPermission
  <2>2. {q} \in SUBSET pending BY <1>3 DEF RespondPermission
  <2> QED BY <2>1, <2>2, SettlesSparesDecided
<1>4. CASE TurnAborts
  <2>1. Settles(pending, "deny") BY <1>4 DEF TurnAborts, DrainsPending
  <2> QED BY <1>1, <2>1, SettlesSparesDecided
<1>5. ASSUME NEW q \in Requests, RespondPermissionTorn(q) PROVE Said(r) \subseteq Said(r)'
  <2>1. PICK d \in Decisions : ResolvesRows({q}, d) BY <1>5 DEF RespondPermissionTorn
  <2>2. row[r] \in Decisions => row'[r] = row[r] BY <2>1, WritesSpareDecided
  <2>3. UNCHANGED <<prompt, reply>> BY <1>5 DEF RespondPermissionTorn
  <2> QED BY <2>2, <2>3 DEF Said
<1>6. CASE TurnAbortsTorn
  <2>1. row[r] \in Decisions => row'[r] = row[r]
    BY <1>1, <1>6, WritesSpareDecided DEF TurnAbortsTorn
  <2>2. UNCHANGED <<prompt, reply>> BY <1>6 DEF TurnAbortsTorn
  <2> QED BY <2>1, <2>2 DEF Said
<1>7. ASSUME NEW q \in Requests, BootDrains(q) PROVE Said(r) \subseteq Said(r)'
  <2>1. EmitsResolved({q}, "deny") /\ ResolvesRows({q}, "deny") /\ UNCHANGED reply
    BY <1>7 DEF BootDrains, BootDenies
  <2>2. prompt[r] \in Decisions => prompt'[r] = prompt[r] BY <1>1, <2>1, WritesSpareDecided
  <2>3. row[r] \in Decisions => row'[r] = row[r] BY <1>1, <2>1, WritesSpareDecided
  <2> QED BY <2>1, <2>2, <2>3 DEF Said
<1>8. ASSUME NEW q \in Requests, BootDrainsTorn(q) PROVE Said(r) \subseteq Said(r)'
  <2>1. prompt[r] \in Decisions => prompt'[r] = prompt[r]
    BY <1>1, <1>8, WritesSpareDecided DEF BootDrainsTorn
  <2>2. UNCHANGED <<row, reply>> BY <1>8 DEF BootDrainsTorn
  <2> QED BY <2>1, <2>2 DEF Said
<1>9. CASE TurnStarts \/ TurnCompletes \/ Close \/ Crash \/ Boot \/ LogChanges \/ UNCHANGED vars
  <2>1. UNCHANGED <<prompt, row, reply>>
    BY <1>9 DEF TurnStarts, TurnCompletes, Close, Crash, Boot, LogChanges, vars
  <2> QED BY <2>1 DEF Said
<1> QED BY <1>2, <1>3, <1>4, <1>5, <1>6, <1>7, <1>8, <1>9 DEF Next

(* What stays is all there is, since no two decisions on one request differ. *)
LEMMA NoneIsAdded ==
    ASSUME IInv, [Next]_vars, NEW r \in Requests, Said(r) # {}
    PROVE  Said(r)' = Said(r)
<1>1. Said(r) \subseteq Said(r)' BY DecisionsStay
<1>2. PICK d : d \in Said(r) BY Zenon
<1>3. IInv' BY Inductive
<1>4. r \in Asked'
  BY <1>1, <1>2, <1>3 DEF IInv, Unasked, Said, Decisions
<1>5. \A e \in Said(r)' : e = d
  BY <1>1, <1>2, <1>3, <1>4 DEF IInv, DecisionsAgree, Said
<1> QED BY <1>1, <1>2, <1>5

(* A decision once made on a prompt, by the user, a timeout, an aborted    *)
(* turn or a boot, is never taken back or made a second time otherwise.    *)
THEOREM DecisionsStandAlways == Spec => DecisionsStand
<1>1. IInv /\ [Next]_vars
          => [\A r \in Requests : Said(r) # {} => Said(r)' = Said(r)]_vars
  BY NoneIsAdded
<1> QED BY <1>1, Invariance, PTL DEF Spec, DecisionsStand
=============================================================================
