------------------------------ MODULE MCHousehold -----------------------------
(***************************************************************************)
(* HouseholdChat over the scenes of its runs.  A scene is a setup of the   *)
(* gateway, a plain store throughout, that also says what is said to each  *)
(* job and how many quotes, approvals and challenges are made of it.       *)
(***************************************************************************)
EXTENDS HouseholdChat, HouseholdBoard, ChatStreams

CONSTANTS j1, j2, j3

Says(ask, reply) == [ask |-> ask, reply |-> reply]

AllMessages == {Says("buy", "none"), Says("buyAndWait", "none"), Says("energy", "none"),
                Says("buy", "yes"), Says("other", "yes"), Says("other", "no")}

Scene(first, second, third, budget, maxCrashes, quotes, challenges) ==
    [part |-> "chat", plugin |-> FALSE, offered |-> <<>>, stock |-> 2, budget |-> budget,
     keyInBody |-> TRUE, planner |-> FALSE, crashes |-> maxCrashes,
     months |-> IF quotes = 0 THEN 2 ELSE 1,
     quotes |-> quotes, challenges |-> challenges,
     says |-> [j \in Threads |-> CASE j = j1 -> first [] j = j2 -> second [] j = j3 -> third]]

Replies == {Says("other", "yes"), Says("other", "no")}

\* One purchase that waits while a reply decides it; one with two replies to
\* it; two purchases and a reply; surplus energy and a crash.
OneReply   == Scene({Says("buyAndWait", "none")}, Replies, {}, 2, 1, 1, 2)
TwoReplies == Scene({Says("buy", "none")}, Replies, {Says("buy", "yes")}, 2, 0, 1, 1)
TwoBuys    == Scene({Says("buy", "none")}, {Says("buy", "none")}, Replies, 1, 0, 2, 1)
Surplus    == Scene({Says("energy", "none")}, {Says("energy", "none")}, {}, 1, 1, 0, 0)

\* Watts in kilowatts and levels in fifths, with a sensor that fails or none:
\* exported, backed by a full battery, left over with a battery that is low.
Sensors(solar, output, export, import, battery) ==
    [solar |-> solar, output |-> output, export |-> export, import |-> import,
     battery |-> battery]

Reading(real, failed) == [real |-> real, failed |-> failed]

AllReadings ==
    {Reading(Sensors(3, 1, 2, 0, 3), {"solar"}),
     Reading(Sensors(3, 3, 0, 0, 5), {"export"}),
     Reading(Sensors(2, 1, 1, 0, 1), {"battery"})}

\* The board and the streams are apart from the gateway.
Part(name) == [Scene({}, {}, {}, 1, 0, 0, 0) EXCEPT !.part = name]

AllScenes == {OneReply, TwoReplies, TwoBuys, Surplus, Part("board"), Part("streams")}

(***************************************************************************)
(* Boards: more tasks than a page holds, some of them due on one day, in   *)
(* the past or never, that are closed or described by two requests, moved, *)
(* created, more than a digest or a listing holds; and cycles of many      *)
(* lengths.                                                                *)
(***************************************************************************)
Due(d, late) == [day |-> d, late |-> late]

ATask(due, old) == [exists |-> TRUE, due |-> due, done |-> FALSE, note |-> 0, old |-> old]

Cycle(s, l, p) == [start |-> s, length |-> l, period |-> p, months |-> 2]

ABoard(tasks, created, dues, changes, cycle) ==
    [tasks |-> tasks, created |-> created, dues |-> dues, edits |-> changes, cycle |-> cycle]

Few  == <<ATask(Due(0, FALSE), FALSE), ATask(Due(0, FALSE), TRUE), ATask(Due(-1, TRUE), FALSE),
          ATask(NoDue, TRUE)>>
Even == <<ATask(Due(2, TRUE), FALSE), ATask(Due(1, FALSE), FALSE), ATask(Due(8, FALSE), FALSE),
          ATask(Due(7, TRUE), TRUE)>>
Late == <<ATask(Due(0, TRUE), FALSE), ATask(Due(-2, FALSE), TRUE), ATask(Due(0, FALSE), FALSE),
          ATask(Due(-1, FALSE), FALSE), ATask(Due(-2, TRUE), FALSE), ATask(Due(0, FALSE), TRUE)>>
Many == Few \o <<ATask(Due(3, FALSE), FALSE), ATask(Due(4, FALSE), FALSE), ATask(NoDue, FALSE)>>

AllBoards ==
    {ABoard(Few, {5}, {Due(1, FALSE)}, 2, NoCycle),
     ABoard(Even, {}, {Due(3, FALSE)}, 2, NoCycle),
     ABoard(Late, {}, {}, 2, NoCycle),
     ABoard(Many, {}, {}, 1, NoCycle)} \cup
    {ABoard(<<>>, {}, {}, 0, Cycle(s, l, p)) :
        s \in {-200, -15, -14, 10}, l \in {21, 28, 45}, p \in {1, 10}}

MCInit ==
    /\ ChatInit
    /\ BoardInit
    /\ setup.part # "board" => plan = ABoard(Few, {5}, {Due(1, FALSE)}, 2, NoCycle)
    /\ StreamsInit

\* For the counterexample.
ApprovedTwice == {Scene({Says("buyAndWait", "none")}, {Says("other", "yes")}, {}, 2, 0, 1, 2)}

InScope ==
    /\ \A j \in Threads :
          job[j].at # "none" => Says(job[j].ask, job[j].reply) \in setup.says[j]
    /\ Cardinality({q \in Quotes : Quoted(mem, q)}) <= setup.quotes
    /\ Cardinality({c \in Challenges : mem.challenge[c].state # "none"})
          <= setup.challenges
    \* A household hears of a decision after it asked.
    /\ setup.quotes = 0 \/ stale = {}

ChatStep == setup.part = "chat" /\ ChatNext /\ InScope' /\ UNCHANGED <<board, streams>>

MCNext ==
    \/ ChatStep
    \/ setup.part = "board" /\ BoardNext /\ UNCHANGED <<home, streams>>
    \/ setup.part = "streams" /\ StreamsNext /\ UNCHANGED <<home, board>>

ScopedFairness ==
    \A j \in Threads :
        /\ WF_home(setup.part = "chat" /\ JobStep(j) /\ InScope')
        /\ WF_home(setup.part = "chat" /\ CallTimesOut(j) /\ InScope')

MCSpec ==
    /\ MCInit /\ [][MCNext]_<<home, board, streams>>
    /\ ScopedFairness /\ StreamsFairness

\* Every message is answered, and every page that is open for it hears the answer.
MessagesAreAnswered == JobsEnd /\ ListenersHearTheEnd
=============================================================================
