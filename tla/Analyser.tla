------------------------------ MODULE Analyser ------------------------------
(***************************************************************************)
(* The conversation analyser: three entries into one piece of work.  The   *)
(* background loop (analyser/loop.py), the UI's Scan button and the UI's   *)
(* Re-Analyse button (app/analysis/browser.py) each try the same non-      *)
(* blocking scan lock and, holding it, work off the operators' disputes,   *)
(* consolidate the lessons and analyse conversations.  The operators'      *)
(* submit and cancel (app/analysis/feedback.py) run beside that work in    *)
(* executor threads: they read feedback.yaml and write it back, and hold   *)
(* no lock.  The files of a conversation survive a crash; nothing else     *)
(* does.                                                                   *)
(***************************************************************************)
EXTENDS Naturals, FiniteSets, SequencesExt

CONSTANTS
  Order,        \* the conversations, in the order of their directories
  Findings,     \* the identities (request_id, failure_mode) of findings
  Answers,      \* the analyses a model may give: a severity per identity
  Huge,         \* the conversations no model takes
  Quiet,        \* the conversations that are over when the process starts
  Dated,        \* the date of each conversation's directory
  Operators,    \* the executor threads of the settings page's requests
  BatchSize,    \* ANALYSER_BATCH_SIZE
  HistoryMax,   \* ANALYSIS_HISTORY_MAX_ENTRIES
  Threshold,    \* LESSONS_CONSOLIDATE_THRESHOLD
  None,
  MaxDays, MaxDisputes, MaxClicks, MaxFaults, MaxLives   \* bounds

Convs == Range(Order)

ASSUME AnalyserAssumption ==
  /\ IsInjective(Order) /\ Huge \subseteq Convs
  /\ Dated \in [Convs -> Nat] /\ MaxDays \in Nat
  /\ Answers \subseteq [Findings -> 0 .. 2]   \* absent, low, high
  /\ BatchSize \in Nat \ {0} /\ HistoryMax \in Nat \ {0}

VARIABLES
  today,      \* the date
  fresh,      \* the conversations not yet quiet for long enough
  analysis,   \* analysis.yaml: None, or the severities of its findings
  history,    \* analysis-history.yaml: the disputes of each superseded analysis
  feedback,   \* feedback.yaml: the disputes of the present analysis
  skipped,    \* the conversations with an analysis.skipped.yaml
  lessons,    \* lessons-learned.md: the disputes that taught them
  loop,       \* the background loop: "on" or "dead"
  work,       \* what the holder of the scan lock is doing
  op,         \* by executor thread: the write it is about to make
  spent       \* what was used up of each bound

vars == <<today, fresh, analysis, history, feedback, skipped, lessons, loop, work,
          op, spent>>
files == <<analysis, history, feedback, skipped, lessons>>

Spend(what) == spent' = [spent EXCEPT ![what] = @ + 1]

Init ==
  /\ today = 1
  /\ fresh = Convs \ Quiet
  /\ analysis = [c \in Convs |-> None]
  /\ history = [c \in Convs |-> <<>>]
  /\ feedback = [c \in Convs |-> <<>>]
  /\ skipped = {} /\ lessons = {}
  /\ loop = "on" /\ work = None
  /\ op = [o \in Operators |-> None]
  /\ spent = [disputes |-> 0, clicks |-> 0, faults |-> 0, lives |-> 1]
-----------------------------------------------------------------------------
(* Disputes in a feedback file.                                            *)

Settled == {"validated", "best_effort"}
Active == {"pending", "processing"}

Has(items, f) == \E i \in DOMAIN items : items[i].finding = f
FindEntry(items, f) == SelectInSeq(items, LAMBDA e : e.finding = f)
StatusOf(items, f) == items[FindEntry(items, f)].status

\* The item of a finding, put in place or appended.
Put(items, e) ==
  IF Has(items, e.finding)
  THEN ReplaceAt(items, FindEntry(items, e.finding), e)
  ELSE Append(items, e)

Mark(items, f, status) ==
  [items EXCEPT ![FindEntry(items, f)].status = status,
                ![FindEntry(items, f)].late = FALSE]

Pending(items) == SelectSeq(items, LAMBDA e : e.status = "pending")

RecoveredNever(items) == items

\* recover_stuck_processing, for one file.
Recovered(items) ==
  [i \in DOMAIN items |->
     IF items[i].status = "processing" /\ items[i].late
     THEN [items[i] EXCEPT !.status = "pending", !.late = FALSE]
     ELSE items[i]]

\* check_finding_resolved: gone, or for a downgrade less severe than before.
Resolved(how, f, before, after) ==
  IF how = "dismiss" THEN after[f] = 0 ELSE after[f] < before[f]
-----------------------------------------------------------------------------
(* The operators: each reads the file, and later writes what it made of it. *)

MayDispute(items, f) ==
  \A i \in DOMAIN items :
    items[i].status \in Active =>
      items[i].finding = f /\ items[i].status = "pending"

SubmitFeedback(o, c, f, how) ==
  /\ op[o] = None /\ spent.disputes < MaxDisputes
  /\ analysis[c] # None /\ analysis[c][f] > 0
  /\ MayDispute(feedback[c], f)
  /\ Spend("disputes")
  /\ op' = [op EXCEPT ![o] = [conv |-> c, items |->
       Put(feedback[c], [finding |-> f, how |-> how, number |-> spent.disputes,
                         status |-> "pending", late |-> FALSE])]]
  /\ UNCHANGED <<today, fresh, files, loop, work>>

DeleteFeedback(o, c, f) ==
  /\ op[o] = None /\ spent.clicks < MaxClicks
  /\ Has(feedback[c], f) /\ StatusOf(feedback[c], f) # "processing"
  /\ Spend("clicks")
  /\ op' = [op EXCEPT ![o] = [conv |-> c, items |->
                                RemoveAt(feedback[c], FindEntry(feedback[c], f))]]
  /\ UNCHANGED <<today, fresh, files, loop, work>>

OperatorWrites(o) ==
  /\ op[o] # None
  /\ feedback' = [feedback EXCEPT ![op[o].conv] = op[o].items]
  /\ op' = [op EXCEPT ![o] = None]
  /\ UNCHANGED <<today, fresh, analysis, history, skipped, lessons, loop, work,
                 spent>>
-----------------------------------------------------------------------------
(* Taking the scan lock.  A caller that finds it taken gives up: the loop  *)
(* skips its tick and a button answers "busy".                             *)

Work(who, only) ==
  [who |-> who, only |-> only, stage |-> "recover", todo |-> <<>>, copy |-> <<>>,
   queue |-> <<>>, alone |-> <<>>, answers |-> <<>>, entry |-> None,
   wrote |-> FALSE]

LoopTick ==
  /\ loop = "on" /\ work = None
  /\ work' = Work("loop", None)
  /\ UNCHANGED <<today, fresh, files, loop, op, spent>>

\* prepare_context finds no model or no key: the loop ends.
LoopMisconfigured ==
  /\ loop = "on" /\ work = None /\ spent.faults < MaxFaults
  /\ loop' = "dead" /\ Spend("faults")
  /\ UNCHANGED <<today, fresh, files, work, op>>

RunAnalysis(c) ==
  /\ work = None /\ spent.clicks < MaxClicks
  /\ work' = Work("rerun", c) /\ Spend("clicks")
  /\ UNCHANGED <<today, fresh, files, loop, op>>

ScanAndAnalyse ==
  /\ work = None /\ spent.clicks < MaxClicks
  /\ \E c \in Convs : analysis[c] = None
  /\ work' = Work("scan", None) /\ Spend("clicks")
  /\ UNCHANGED <<today, fresh, files, loop, op>>
-----------------------------------------------------------------------------
(* Working off the disputes.                                               *)

At(stage) == work # None /\ work.stage = stage

\* What follows a dispute that is done with, wrote telling whether it wrote
\* a new analysis.
NextDispute(wrote) ==
  [work EXCEPT !.stage = "feedback", !.todo = Tail(@), !.copy = <<>>,
               !.wrote = @ \/ wrote]

\* recover_stuck_processing over every conversation, then find_pending_feedback
\* (or, for Re-Analyse, the pending items of that conversation).
RecoverAndList ==
  LET files1 == [c \in Convs |-> Recovered(feedback[c])]
      pendingOf(c) == [i \in DOMAIN Pending(files1[c]) |->
                         <<c, Pending(files1[c])[i].finding>>]
  IN /\ At("recover")
     /\ feedback' = files1
     /\ work' = [work EXCEPT !.stage = "feedback", !.todo =
                   IF work.only # None THEN pendingOf(work.only)
                   ELSE FlattenSeq([i \in DOMAIN Order |-> pendingOf(Order[i])])]
     /\ UNCHANGED <<today, fresh, analysis, history, skipped, lessons, loop, op,
                    spent>>

\* The head of process_feedback, up to the first call of the model.
TakeUp ==
  LET c == Head(work.todo)[1]
      f == Head(work.todo)[2]
      items == feedback[c]
      stale == Has(items, f) /\ analysis[c][f] = 0
  IN /\ At("feedback") /\ work.todo # <<>>
     /\ IF analysis[c] = None \/ ~Has(items, f) \/ StatusOf(items, f) \in Settled
        THEN work' = NextDispute(FALSE) /\ UNCHANGED feedback
        ELSE IF stale
        THEN /\ feedback' = [feedback EXCEPT ![c] = Mark(items, f, "orphaned")]
             /\ work' = NextDispute(FALSE)
        ELSE /\ feedback' = [feedback EXCEPT ![c] = Mark(items, f, "processing")]
             /\ work' = [work EXCEPT !.stage = "extract", !.copy = items]
     /\ UNCHANGED <<today, fresh, analysis, history, skipped, lessons, loop, op,
                    spent>>

\* process_feedback writes its own copy of the file, as it was taken up.
Settle(status) ==
  LET c == Head(work.todo)[1]
      f == Head(work.todo)[2]
  IN feedback' = [feedback EXCEPT ![c] = Mark(work.copy, f, status)]

\* A call of the model gives no answer: an error or an unreadable reply.
NoAnswer == spent.faults < MaxFaults /\ Spend("faults")

ExtractLesson ==
  LET f == Head(work.todo)[2]
  IN /\ At("extract")
     /\ \/ /\ lessons' = lessons \cup {work.copy[FindEntry(work.copy, f)].number}
           /\ work' = [work EXCEPT !.stage = "validate"]
           /\ UNCHANGED <<feedback, spent>>
        \/ /\ NoAnswer
           /\ Settle("error")
           /\ work' = NextDispute(FALSE)
           /\ UNCHANGED lessons
     /\ UNCHANGED <<today, fresh, analysis, history, skipped, loop, op>>

\* One re-analysis with the lesson in force; the verdict is on disk before
\* the analysis it is about.  A conversation that has an analysis is taken to
\* be one that a model takes.
Validate ==
  LET c == Head(work.todo)[1]
      f == Head(work.todo)[2]
      how == work.copy[FindEntry(work.copy, f)].how
  IN /\ At("validate")
     /\ \/ /\ \E a \in Answers :
                /\ Settle(IF Resolved(how, f, analysis[c], a) THEN "validated"
                          ELSE "best_effort")
                /\ work' = [work EXCEPT !.stage = "write", !.answers = <<<<c, a>>>>]
           /\ UNCHANGED spent
        \/ /\ NoAnswer
           /\ Settle("best_effort")
           /\ work' = NextDispute(FALSE)
     /\ UNCHANGED <<today, fresh, analysis, history, skipped, lessons, loop, op>>
-----------------------------------------------------------------------------
(* Analysing conversations.                                                *)

Recent(c) == Dated[c] \in {today, today - 1}

\* find_eligible_conversations: of today and yesterday, whoever asks; a button
\* passes a staleness of zero.
Eligible(staleOnly) ==
  SelectSeq(Order, LAMBDA c :
    /\ Recent(c)
    /\ analysis[c] = None /\ c \notin skipped
    /\ ~(staleOnly /\ c \in fresh))

Continue(w) ==
  IF w.answers # <<>> THEN [w EXCEPT !.stage = "write"]
  ELSE IF w.queue # <<>> THEN [w EXCEPT !.stage = "batch"]
  ELSE None

\* What is to be analysed after the disputes: Re-Analyse leaves an analysis
\* alone that a dispute has just written.
ToAnalyse ==
  IF work.who # "rerun" THEN Eligible(work.who = "loop")
  ELSE IF work.wrote THEN <<>> ELSE <<work.only>>

\* The end of the disputes: consolidate_lessons, and on to the conversations.
Consolidate ==
  /\ At("feedback") /\ work.todo = <<>>
  /\ \/ Cardinality(lessons) < Threshold /\ UNCHANGED <<lessons, spent>>
     \/ Cardinality(lessons) >= Threshold /\ NoAnswer /\ UNCHANGED lessons
     \/ /\ Cardinality(lessons) >= Threshold
        /\ \E kept \in SUBSET lessons \ {{}} : lessons' = kept
        /\ UNCHANGED spent
  /\ work' = Continue([work EXCEPT !.queue = ToAnalyse])
  /\ UNCHANGED <<today, fresh, analysis, history, feedback, skipped, loop, op>>

Batch == SubSeq(work.queue, 1, IF Len(work.queue) < BatchSize THEN Len(work.queue)
                               ELSE BatchSize)
Rest == SubSeq(work.queue, Len(Batch) + 1, Len(work.queue))

\* _match_parsed_analyses: what the reply holds for each conversation asked
\* about, by its identity.
Matched(asked, reply) ==
  LET answered == SelectSeq(asked, LAMBDA c : reply[c] # None)
  IN [i \in DOMAIN answered |-> <<answered[i], reply[answered[i]]>>]

\* What a call about these conversations may return, and whether it is at
\* fault when one is missing.
Replies(asked) ==
  IF Range(asked) \cap Huge # {} THEN {[c \in Range(asked) |-> None]}
  ELSE [Range(asked) -> Answers \cup (IF spent.faults < MaxFaults THEN {None} ELSE {})]

AtFault(asked, reply) ==
  Range(asked) \cap Huge = {} /\ \E c \in Range(asked) : reply[c] = None

\* Only a conversation that is too large by itself is marked.
MarkSkipped(asked) ==
  skipped' = IF Len(asked) = 1 THEN skipped \cup (Range(asked) \cap Huge) ELSE skipped

AnalyseBatchOnce ==
  /\ At("batch")
  /\ \E reply \in Replies(Batch) :
       /\ IF AtFault(Batch, reply) THEN Spend("faults") ELSE UNCHANGED spent
       /\ work' = Continue([work EXCEPT !.answers = Matched(Batch, reply), !.queue = Rest])
  /\ MarkSkipped(Batch)
  /\ UNCHANGED <<today, fresh, analysis, history, feedback, lessons, loop, op>>

\* One call of the model for a batch; a batch that fails as a whole is asked
\* about again, one conversation at a time.
AnalyseBatch ==
  /\ At("batch")
  /\ \E reply \in Replies(Batch) :
       LET matched == Matched(Batch, reply)
       IN /\ IF AtFault(Batch, reply) THEN Spend("faults") ELSE UNCHANGED spent
          /\ work' = IF Len(Batch) > 1 /\ matched = <<>>
                     THEN [work EXCEPT !.stage = "alone", !.alone = Batch, !.queue = Rest]
                     ELSE Continue([work EXCEPT !.answers = matched, !.queue = Rest])
  /\ MarkSkipped(Batch)
  /\ UNCHANGED <<today, fresh, analysis, history, feedback, lessons, loop, op>>

AnalyseAlone ==
  LET asked == <<Head(work.alone)>>
  IN /\ At("alone")
     /\ \E reply \in Replies(asked) :
          LET w == [work EXCEPT !.alone = Tail(@), !.answers = @ \o Matched(asked, reply)]
          IN /\ IF AtFault(asked, reply) THEN Spend("faults") ELSE UNCHANGED spent
             /\ work' = IF w.alone = <<>> THEN Continue(w) ELSE w
     /\ MarkSkipped(asked)
     /\ UNCHANGED <<today, fresh, analysis, history, feedback, lessons, loop, op>>
-----------------------------------------------------------------------------
(* write_analysis: the new analysis is published, then the history, then   *)
(* the disputes it answers are removed.  Temporary files are not modelled: *)
(* until the first rename nothing is changed.                              *)

\* The write of one answer is over: on to the next dispute, answer or batch.
Written ==
  LET w == [work EXCEPT !.answers = Tail(@), !.entry = None]
  IN IF work.todo # <<>>
     THEN [NextDispute(TRUE) EXCEPT !.answers = <<>>, !.entry = None]
     ELSE Continue(w)

WriteAnalysis ==
  LET c == Head(work.answers)[1]
  IN /\ At("write")
     /\ analysis' = [analysis EXCEPT ![c] = Head(work.answers)[2]]
     /\ work' = IF analysis[c] = None THEN Written
                ELSE [work EXCEPT !.stage = "publish", !.entry = feedback[c]]
     /\ UNCHANGED <<today, fresh, history, feedback, skipped, lessons, loop, op,
                    spent>>

Rotate(entries) ==
  IF Len(entries) > HistoryMax
  THEN SubSeq(entries, Len(entries) - HistoryMax + 1, Len(entries)) ELSE entries

PublishAfterUnlink ==
  LET c == Head(work.answers)[1]
  IN /\ At("publish")
     /\ feedback' = [feedback EXCEPT ![c] = <<>>]
     /\ work' = [work EXCEPT !.stage = "unlink"]
     /\ UNCHANGED <<today, fresh, analysis, history, skipped, lessons, loop, op,
                    spent>>

PublishHistory ==
  LET c == Head(work.answers)[1]
  IN /\ At("publish")
     /\ history' = [history EXCEPT ![c] = Rotate(Append(@, work.entry))]
     /\ work' = [work EXCEPT !.stage = "unlink"]
     /\ UNCHANGED <<today, fresh, analysis, feedback, skipped, lessons, loop, op,
                    spent>>

UnlinkFeedback ==
  LET c == Head(work.answers)[1]
  IN /\ At("unlink")
     /\ feedback' = [feedback EXCEPT ![c] = <<>>]
     /\ work' = Written
     /\ UNCHANGED <<today, fresh, analysis, history, skipped, lessons, loop, op,
                    spent>>
-----------------------------------------------------------------------------
(* Failures.                                                               *)

\* Any other exception (a file that cannot be read or written) ends this
\* piece of work; the loop sleeps and ticks again, a button reports it.
WorkRaises ==
  /\ work # None /\ NoAnswer
  /\ work' = None
  /\ UNCHANGED <<today, fresh, files, loop, op>>

\* The model refuses for good (AnalyserFatalError): the loop ends.
AsksModel ==
  \/ At("extract") \/ At("validate") \/ At("batch") \/ At("alone")
  \/ At("feedback") /\ work.todo = <<>> /\ Cardinality(lessons) >= Threshold

FatalRefusal ==
  /\ AsksModel /\ NoAnswer
  /\ work' = None
  /\ loop' = IF work.who = "loop" THEN "dead" ELSE loop
  /\ UNCHANGED <<today, fresh, files, op>>

\* The process dies anywhere and is started again.
Restart ==
  /\ spent.lives < MaxLives /\ Spend("lives")
  /\ loop' = "on" /\ work' = None
  /\ op' = [o \in Operators |-> None]
  /\ UNCHANGED <<today, fresh, files>>
-----------------------------------------------------------------------------
(* Time.                                                                   *)

FallQuiet(c) ==
  /\ c \in fresh /\ fresh' = fresh \ {c}
  /\ UNCHANGED <<today, files, loop, work, op, spent>>

Midnight ==
  /\ today < MaxDays /\ today' = today + 1
  /\ UNCHANGED <<fresh, files, loop, work, op, spent>>

\* Ten minutes pass over a dispute that is being processed.
TimeOut(c) ==
  /\ \E i \in DOMAIN feedback[c] :
       feedback[c][i].status = "processing" /\ ~feedback[c][i].late
  /\ feedback' = [feedback EXCEPT ![c] =
       [i \in DOMAIN @ |-> [@[i] EXCEPT !.late = @ \/ feedback[c][i].status = "processing"]]]
  /\ UNCHANGED <<today, fresh, analysis, history, skipped, lessons, loop, work, op,
                 spent>>
-----------------------------------------------------------------------------
WorkStep ==
  \/ RecoverAndList \/ TakeUp \/ ExtractLesson \/ Validate \/ Consolidate
  \/ AnalyseBatch \/ AnalyseAlone
  \/ WriteAnalysis \/ PublishHistory \/ UnlinkFeedback

Next ==
  \/ WorkStep
  \/ LoopTick \/ LoopMisconfigured \/ ScanAndAnalyse
  \/ WorkRaises \/ FatalRefusal \/ Restart \/ Midnight
  \/ \E c \in Convs :
       RunAnalysis(c) \/ FallQuiet(c) \/ TimeOut(c)
  \/ \E o \in Operators :
       \/ OperatorWrites(o)
       \/ \E c \in Convs, f \in Findings :
            DeleteFeedback(o, c, f)
            \/ \E how \in {"dismiss", "downgrade"} : SubmitFeedback(o, c, f, how)

Spec == Init /\ [][Next]_vars

\* The thread that holds the lock runs, the loop wakes up after its interval,
\* a write that was begun is made, and time passes.
FairSpec ==
  /\ Spec /\ WF_vars(WorkStep) /\ WF_vars(LoopTick)
  /\ \A o \in Operators : WF_vars(OperatorWrites(o))
  /\ \A c \in Convs : WF_vars(FallQuiet(c)) /\ WF_vars(TimeOut(c))
-----------------------------------------------------------------------------
(* Every dispute is settled in the end, unless the loop is over: a model   *)
(* that fails, an exception and a crash at any point of its processing     *)
(* leave it where a later piece of work finds it.                          *)
DisputesSettle ==
  \A c \in Convs :
    (\E i \in DOMAIN feedback[c] : feedback[c][i].status \in Active)
      ~> (loop = "dead" \/ \A i \in DOMAIN feedback[c] :
                              feedback[c][i].status \notin Active)

(* A conversation that a model can take is analysed in the end, unless the *)
(* loop is over or it is of neither today nor yesterday by then: not even  *)
(* a batch-mate that no model takes keeps it from that, and no failure of  *)
(* a call marks it as not to be retried.                                   *)
EveryConversationIsAnalysed ==
  \A c \in Convs \ Huge :
    <>(analysis[c] # None \/ loop = "dead" \/ ~Recent(c))

\* The disputes settled among items, and those in c's history.
Disputes(items) == {items[i].number : i \in {j \in DOMAIN items :
                                               items[j].status \in Settled}}
Filed(c) == UNION {Disputes(history[c][i]) : i \in DOMAIN history[c]}

(* A settled dispute leaves feedback.yaml only for the history, or by an   *)
(* operator's write: a crash or an exception between the renames of        *)
(* write_analysis loses no operator's judgement.                           *)
SettledAreFiled ==
  [][\A c \in Convs :
       op' = op => Disputes(feedback[c]) \ Disputes(feedback'[c]) \subseteq Filed(c)]_vars
=============================================================================
