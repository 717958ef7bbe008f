---------------------------- MODULE HouseholdBoard ----------------------------
(***************************************************************************)
(* The tasks of a household (VikunjaClient of household_os.py), what the   *)
(* digests and the calendar feed show of them, and the cycle calendar.     *)
(*                                                                         *)
(* Vikunja keeps the tasks.  A listing asks for them page by page and in   *)
(* the order of their due dates, while other requests change them; a       *)
(* change reads the task and posts all of it back.  Days count from today. *)
(***************************************************************************)
EXTENDS Integers, FiniteSets, SequencesExt

CONSTANTS Tasks,    \* numbers, the ids of tasks
          Clerks,   \* requests that change tasks
          PageSize, \* tasks of a page: 100 in the code
          MaxPages, \* pages of a listing: 10 in the code
          BucketSize, \* tasks of a bucket that a digest carries: 20 in the code
          TextLines,  \* tasks of a bucket in the text of a digest: 5 in the code
          NoDue, Boards

(***************************************************************************)
(* A board bounds a behaviour: the tasks there are, those that may be      *)
(* created, the due dates that may be set, how often tasks are changed,    *)
(* and the cycle calendar that is configured.                              *)
(***************************************************************************)
NoCycle == [start |-> 0, length |-> 0, period |-> 0, months |-> 0]

ASSUME PagesAreSome == PageSize \in Nat \ {0} /\ MaxPages \in Nat \ {0}
ASSUME DigestsShowSome == BucketSize \in Nat \ {0} /\ TextLines \in 1 .. BucketSize
ASSUME CyclesAreAccepted ==
    \A b \in Boards : b.cycle # NoCycle =>
        /\ b.cycle.length \in 21 .. 45 /\ b.cycle.period \in 1 .. 10
        /\ b.cycle.months \in 1 .. 18 /\ b.cycle.start \in Int

VARIABLES task,    \* the tasks Vikunja has
          edit,    \* the change each clerk is making
          listing, \* list_tasks
          moved,   \* whether a due date was changed, or a task created, since it began
          changed, \* tasks that were closed, or opened again, since it began
          edits,   \* changes so far
          plan     \* the board, chosen once

board == <<task, edit, listing, moved, changed, edits, plan>>

NoTask == [exists |-> FALSE, due |-> NoDue, done |-> FALSE, note |-> 0, old |-> FALSE]
NoEdit == [at |-> "idle", id |-> 0, read |-> NoTask, change |-> <<>>]
NoListing == [at |-> "idle", page |-> 1, got |-> <<>>]

BoardInit ==
    /\ plan \in Boards
    /\ task = [i \in Tasks |-> IF i \in DOMAIN plan.tasks THEN plan.tasks[i] ELSE NoTask]
    /\ edit = [c \in Clerks |-> NoEdit]
    /\ listing = NoListing
    /\ moved = FALSE
    /\ changed = {}
    /\ edits = 0

(***************************************************************************)
(* Due dates.  They come in UTC; "late" ones are due on the next day at    *)
(* home, east of Greenwich.                                                *)
(***************************************************************************)
DueDay(due) == due.day

LocalDay(due) == IF due.late THEN due.day + 1 ELSE due.day

\* sort_by=due_date, then by id; tasks without a due date are last.
Before(i, j) ==
    LET a == task[i].due
        b == task[j].due
        Rank(d) == 2 * d.day + (IF d.late THEN 1 ELSE 0)
    IN  \/ a # NoDue /\ b = NoDue
        \/ a # NoDue /\ b # NoDue /\ Rank(a) < Rank(b)
        \/ i < j /\ (a = b)

(***************************************************************************)
(* Changes                                                                 *)
(***************************************************************************)
\* What a command or the page of a task asks for.  A due date that is to be
\* cleared is left out of the request.
Changes ==
    {<<"complete">>, <<"describe">>, <<"due date", NoDue>>} \cup
    {<<"due date", d>> : d \in plan.dues}

Merged(read, change) ==
    CASE change[1] = "complete" -> [read EXCEPT !.done = TRUE]
      [] change[1] = "describe" -> [read EXCEPT !.note = edits]
      [] change[1] = "due date" -> [read EXCEPT !.due = IF change[2] = NoDue THEN @ ELSE change[2]]

\* update_task reads the task,
GetTask(c, i, change) ==
    /\ edits < plan.edits
    /\ edit[c].at = "idle"
    /\ task[i].exists
    /\ edits' = edits + 1
    /\ edit' = [edit EXCEPT ![c] = [at |-> "post", id |-> i, read |-> task[i],
                                    change |-> change]]
    /\ UNCHANGED <<task, listing, moved, changed, plan>>

\* and posts every field of it, whatever has become of the task since.
PostTask(c) ==
    LET i    == edit[c].id
        post == [Merged(edit[c].read, edit[c].change) EXCEPT !.old = FALSE]
    IN  /\ edit[c].at = "post"
        /\ task' = [task EXCEPT ![i] = post]
        /\ moved' = (moved \/ post.due # task[i].due)
        /\ changed' = IF post.done # task[i].done THEN changed \cup {i} ELSE changed
        /\ edit' = [edit EXCEPT ![c] = NoEdit]
        /\ UNCHANGED <<listing, edits, plan>>

CreateTask(i, due) ==
    /\ edits < plan.edits
    /\ i \in plan.created
    /\ ~task[i].exists
    /\ task' = [task EXCEPT ![i] = [NoTask EXCEPT !.exists = TRUE, !.due = due]]
    /\ moved' = TRUE
    /\ edits' = edits + 1
    /\ UNCHANGED <<edit, listing, changed, plan>>

(***************************************************************************)
(* Listings                                                                *)
(***************************************************************************)
Sorted ==
    LET there == {i \in Tasks : task[i].exists}
    IN  [n \in 1 .. Cardinality(there) |->
            CHOOSE i \in there : Cardinality({j \in there : Before(j, i)}) = n - 1]

Page(n) ==
    LET sorted == Sorted
        from   == (n - 1) * PageSize
        to     == IF Len(sorted) < from + PageSize THEN Len(sorted) ELSE from + PageSize
        ids    == SubSeq(sorted, from + 1, to)
    IN  [k \in DOMAIN ids |-> [id |-> ids[k]] @@ task[ids[k]]]

StartListing ==
    /\ listing.at # "pages"
    /\ listing' = [NoListing EXCEPT !.at = "pages"]
    /\ moved' = FALSE
    /\ changed' = {}
    /\ UNCHANGED <<task, edit, edits, plan>>

\* Faulty variant: a page that is as long as asked for is the last one.
ReadFirstPage ==
    /\ listing.at = "pages"
    /\ listing' = [listing EXCEPT !.at = "listed", !.got = @ \o Page(listing.page)]
    /\ UNCHANGED <<task, edit, moved, changed, edits, plan>>

\* A short page is the last one.
ReadPage ==
    LET answer == Page(listing.page)
        last   == Len(answer) < PageSize \/ listing.page = MaxPages
    IN  /\ listing.at = "pages"
        /\ listing' = [at |-> IF last THEN "listed" ELSE "pages",
                       page |-> listing.page + 1, got |-> listing.got \o answer]
        /\ UNCHANGED <<task, edit, moved, changed, edits, plan>>

BoardNext ==
    \/ \E c \in Clerks :
          PostTask(c) \/ \E i \in Tasks, change \in Changes : GetTask(c, i, change)
    \/ \E i \in Tasks, d \in plan.dues : CreateTask(i, d)
    \/ StartListing \/ ReadPage

(***************************************************************************)
(* What a listing is asked for: open or closed tasks, up to a day, from a  *)
(* day on, or old ones only                                                *)
(***************************************************************************)
AnyDay == NoDue

Passes(t, done, before, after, oldOnly) ==
    /\ t.done = done
    /\ before # AnyDay => t.due # NoDue /\ DueDay(t.due) <= before
    /\ after # AnyDay => t.due # NoDue /\ DueDay(t.due) >= after
    /\ oldOnly => t.old

Filtered(done, before, after, oldOnly) ==
    SelectSeq(listing.got, LAMBDA t : Passes(t, done, before, after, oldOnly))

OpenTasks == Filtered(FALSE, AnyDay, AnyDay, FALSE)

(***************************************************************************)
(* What is shown of the open tasks.  A digest counts all tasks of a        *)
(* bucket, carries the first BucketSize of them and names fewer in its     *)
(* text.                                                                   *)
(***************************************************************************)
DailyBuckets == {"overdue", "today", "tomorrow", "upcoming"}
WeeklyBuckets == {"overdue", "due this week", "stale", "no due date"}

\* daily_summary(days); "none" is no bucket.
DailyBucket(t, days) ==
    CASE t.due = NoDue                          -> "none"
      [] t.due # NoDue /\ DueDay(t.due) < 0     -> "overdue"
      [] t.due # NoDue /\ DueDay(t.due) = 0     -> "today"
      [] t.due # NoDue /\ DueDay(t.due) = 1     -> "tomorrow"
      [] t.due # NoDue /\ DueDay(t.due) \in 2 .. days -> "upcoming"
      [] t.due # NoDue /\ DueDay(t.due) > 1 /\ DueDay(t.due) > days -> "none"

\* By day and title; titles are in the order of the ids here.
ByDayAndTitle(t, u) == \/ DueDay(t.due) < DueDay(u.due)
                       \/ DueDay(t.due) = DueDay(u.due) /\ t.id < u.id

Daily(bucket, days) ==
    SortSeq(SelectSeq(OpenTasks, LAMBDA t : DailyBucket(t, days) = bucket), ByDayAndTitle)

\* weekly_summary; a stale task is in a bucket of its due date as well.
WeeklyBucket(t) ==
    IF t.due = NoDue THEN "no due date"
    ELSE IF DueDay(t.due) < 0 THEN "overdue"
    ELSE IF DueDay(t.due) <= 7 THEN "due this week" ELSE "none"

\* In the order of the listing, which has the earliest due dates first.
Weekly(bucket) ==
    SelectSeq(OpenTasks, LAMBDA t : IF bucket = "stale" THEN t.old ELSE WeeklyBucket(t) = bucket)

Cut(tasks, most) == SubSeq(tasks, 1, Min({most, Len(tasks)}))

\* The text of the day names one more of what is overdue or due today.
DailyLines(bucket) == IF bucket \in {"overdue", "today"} THEN TextLines + 1 ELSE TextLines

DailyShown(bucket, days) == Cut(Daily(bucket, days), BucketSize)
DailyText(bucket, days) == Cut(Daily(bucket, days), DailyLines(bucket))
WeeklyShown(bucket) == Cut(Weekly(bucket), BucketSize)
WeeklyText(bucket) == Cut(Weekly(bucket), TextLines)

\* task_calendar_events: at home, and not too far away
OnCalendar(t, past, ahead) == t.due # NoDue /\ LocalDay(t.due) \in -past .. ahead

Shown(ids, sequence) == Len(SelectSeq(sequence, LAMBDA t : t.id \in ids))

(***************************************************************************)
(* The cycle calendar                                                      *)
(***************************************************************************)
Horizon(c) == c.months * 31

\* Cycles that were over two weeks ago are skipped.
FirstCycle(c) ==
    LET skipped == IF c.start + c.length >= -14 THEN 0 ELSE (-15 - c.start) \div c.length
    IN  c.start + skipped * c.length

Cycles(c) ==
    {FirstCycle(c) + k * c.length : k \in 0 .. (Horizon(c) - FirstCycle(c)) \div c.length}

\* The windows of a cycle, each from a day to the day after it.
Windows(c) ==
    {w \in {[kind |-> "rest",      from |-> 0,        to |-> c.period],
            [kind |-> "planning",  from |-> c.period, to |-> 13],
            [kind |-> "ovulation", from |-> 8,        to |-> 15],
            [kind |-> "steady",    from |-> 14,       to |-> 21],
            [kind |-> "sensitive", from |-> 21,       to |-> c.length],
            [kind |-> "next",      from |-> c.length, to |-> c.length + 1]} : w.from < w.to}

CycleEvents(c) ==
    {[w EXCEPT !.from = @ + s, !.to = @ + s] : w \in Windows(c), s \in Cycles(c)}

\* cycle_calendar_context
ActiveWindows(c) == {e \in CycleEvents([c EXCEPT !.months = 1]) : e.from <= 0 /\ 0 < e.to}

(***************************************************************************)
(* Properties                                                              *)
(***************************************************************************)
Limit == PageSize * MaxPages

\* Task t of a bucket is shown, or gave way to as many as fit, none due later.
ShownOrLater(t, shown, most) ==
    \/ t \in ToSet(shown)
    \/ Len(shown) = most /\ \A s \in ToSet(shown) : DueDay(s.due) <= DueDay(t.due)

\* The tasks of the day and of the week: those due at home in their days are
\* counted, and those left out of the lists and of the text are not the first due.
DigestsCover(t) ==
    /\ \A days \in 1 .. 3 :
          t.due # NoDue /\ LocalDay(t.due) <= days =>
              \E bucket \in DailyBuckets :
                 /\ t \in ToSet(Daily(bucket, days))
                 /\ ShownOrLater(t, DailyShown(bucket, days), BucketSize)
                 /\ ShownOrLater(t, DailyText(bucket, days), DailyLines(bucket))
    /\ OnCalendar(t, 3, 7) =>
          \E bucket \in WeeklyBuckets \ {"stale", "no due date"} :
             /\ t \in ToSet(Weekly(bucket))
             /\ ShownOrLater(t, WeeklyShown(bucket), BucketSize)
             /\ ShownOrLater(t, WeeklyText(bucket), TextLines)

\* A listing that is read page by page, while tasks are closed and described but
\* none is moved, has every task once; so whatever is due at home in the days of
\* a digest is counted by it, although one counts days in UTC and the other at
\* home, and a task that the digest has no room for is not due before one it shows.
DigestIsComplete ==
    listing.at = "listed" /\ ~moved /\ Cardinality({i \in Tasks : task[i].exists}) <= Limit =>
        \A i \in Tasks \ changed :
            /\ Shown({i}, OpenTasks) = IF task[i].exists /\ ~task[i].done THEN 1 ELSE 0
            /\ \A shown \in {x \in ToSet(OpenTasks) : x.id = i} :
                  /\ DigestsCover(shown)
                  /\ WeeklyBucket(shown) = "overdue" <=>
                        i \in {x.id : x \in ToSet(Filtered(FALSE, -1, AnyDay, FALSE))}

\* Every day from the first cycle to the horizon is in a window of the cycle
\* calendar, those of two weeks ago included, and today is in an active one
\* (cycle_support_events, cycle_calendar_context).
CycleIsCovered ==
    LET c     == plan.cycle
        first == IF c.start < -14 THEN -14 ELSE c.start
        shown == CycleEvents(c)
    IN  c # NoCycle =>
        /\ \A day \in first .. Horizon(c) :
              \E e \in shown : e.from <= day /\ day < e.to
        /\ c.start <= 0 => ActiveWindows(c) # {}

\* The household plans with all of its tasks and all of its days.
PlanIsComplete == DigestIsComplete /\ CycleIsCovered
=============================================================================
