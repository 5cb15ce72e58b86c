---------------------------- MODULE StudioParams ----------------------------
(***************************************************************************)
(* Creating a model in HTM Studio: the dialog starts a parameter finder for *)
(* a metric and offers to analyze the metric with what the finder reports.  *)
(* The renderer keeps one CreateModelStore for whichever dialog is open; the *)
(* main process runs one finder per metric, with the service of             *)
(* ChildService.                                                            *)
(***************************************************************************)
EXTENDS ChildService

CONSTANTS
  MaxMsgs   \* bound: a finder complains only while fewer messages are queued

\* One finder per metric is the only limit.
ASSUME FinderLimit == MaxConcurrency = Cardinality(Ids)

VARIABLES
  answered,   \* the finders that have written their results
  dialog,     \* the metric whose name the open dialog shows
  store       \* CreateModelStore

vars == <<models, owner, killed, attached, toMain, toUi, answered, dialog, store>>

\* The fields hold the metric their contents belong to: the metric to analyze,
\* the metric whose file and column the input options name, the metric whose
\* finder reported the results, and the metric on whose results the user
\* changed a setting.
Reset == [metricId |-> None, inputOpts |-> None, results |-> None,
          overrides |-> None, error |-> FALSE]

TypeOK ==
  /\ models \in [Ids -> Procs \cup {None}]
  /\ owner \in [Procs -> Ids \cup {None}]
  /\ killed = {}
  /\ attached \subseteq Ids
  /\ toMain \in Seq(Command)
  /\ toUi \in Seq([kind : {"create", "stderr", "data", "close"},
                   id : Ids, ok : BOOLEAN])
  /\ answered \subseteq Live
  /\ dialog \in Ids \cup {None}
  /\ store \in [metricId : Ids \cup {None}, inputOpts : Ids \cup {None},
                results : Ids \cup {None}, overrides : Ids \cup {None},
                error : BOOLEAN]

Init ==
  /\ ServiceInit
  /\ answered = {}
  /\ dialog = None
  /\ store = Reset

-----------------------------------------------------------------------------
\* The main process.

RefuseFinder(i) ==
  /\ RefuseCreate(i)
  /\ UNCHANGED <<answered, dialog, store>>

CreateParamFinder(i) ==
  /\ CreateModel(i)
  /\ UNCHANGED <<answered, dialog, store>>

FinderComplains(p) ==
  /\ Len(toUi) < MaxMsgs
  /\ ChildComplains(p)
  /\ UNCHANGED <<answered, dialog, store>>

\* A finder writes its results once; here they come in one chunk.
FinderReports(p) ==
  /\ p \in Live \ answered
  /\ answered' = answered \cup {p}
  /\ toUi' = Forward(owner[p], "data", TRUE)
  /\ UNCHANGED <<models, owner, killed, attached, toMain, dialog, store>>

\* A finder that has reported nothing exits with an error.
FinderCloses(p) ==
  /\ ChildCloses(p)
  /\ answered' = answered \ {p}
  /\ p \notin answered /\ toUi' # toUi => ~toUi'[Len(toUi')].ok
  /\ UNCHANGED <<dialog, store>>

-----------------------------------------------------------------------------
\* The user.

\* The button of a model that never ran opens its dialog and starts a finder.
\* SHOW_CREATE_MODEL_DIALOG sets the names only; START_PARAM_FINDER sets the
\* metric and the input options and leaves the results as they are.
OpenDialog(i) ==
  /\ dialog = None
  /\ dialog' = i
  /\ toMain' = Append(toMain, [cmd |-> "create", id |-> i])
  /\ store' = [store EXCEPT !.metricId = i, !.inputOpts = i]
  /\ UNCHANGED <<models, owner, killed, attached, toUi, answered>>

\* The dialog offers to analyze as soon as there are results.
CanAnalyze == dialog # None /\ store.results # None /\ ~store.error

\* The settings show the results merged with the user's changes.
Override ==
  /\ CanAnalyze
  /\ store' = [store EXCEPT !.overrides = store.results]
  /\ UNCHANGED <<models, owner, killed, attached, toMain, toUi, answered, dialog>>

\* The dialog has buttons only when there are results: until then it shows a
\* spinner, and neither a click beside it nor Escape closes it.
\* Mutant: the dialog can be closed while it loads.
CanAlwaysDismiss == dialog # None

CanDismiss == dialog # None /\ store.results # None

\* "Cancel" and "Analyze" both dismiss the dialog, which resets the store;
\* the finder is left alone.
Dismiss ==
  /\ CanDismiss
  /\ dialog' = None
  /\ store' = Reset
  /\ UNCHANGED <<models, owner, killed, attached, toMain, toUi, answered>>

-----------------------------------------------------------------------------
\* The renderer handles the messages of the main process in order, whether or
\* not the dialog of their metric is open.

Handle(kind, ok) ==
  /\ toUi # <<>>
  /\ Head(toUi).kind = kind /\ Head(toUi).ok = ok
  /\ toUi' = Tail(toUi)
  /\ UNCHANGED <<models, owner, killed, attached, toMain, answered, dialog>>

ReceiveResults ==
  /\ Handle("data", TRUE)
  /\ store' = [store EXCEPT !.results = Head(toUi).id, !.metricId = Head(toUi).id]

\* Mutant: the answer to a refused command is not handled.
HandleReportedError ==
  \/ \E kind \in {"stderr", "close"} :
       Handle(kind, FALSE) /\ store' = [store EXCEPT !.error = TRUE]
  \/ Handle("create", FALSE) /\ UNCHANGED store

HandleError ==
  /\ \E kind \in {"create", "stderr", "close"} : Handle(kind, FALSE)
  /\ store' = [store EXCEPT !.error = TRUE]

\* No store listens to CLOSE_PARAM_FINDER.
HandleClose == Handle("close", TRUE) /\ UNCHANGED store

Renderer == ReceiveResults \/ HandleError \/ HandleClose

-----------------------------------------------------------------------------
Main ==
  \/ \E i \in Ids : RefuseFinder(i) \/ CreateParamFinder(i)
  \/ \E p \in Procs : FinderReports(p) \/ FinderCloses(p)

Next ==
  \/ Main
  \/ Renderer
  \/ \E p \in Procs : FinderComplains(p)
  \/ \E i \in Ids : OpenDialog(i)
  \/ Override
  \/ Dismiss

Spec == Init /\ [][Next]_vars

\* The event loops turn and every finder comes to its end.
Fairness ==
  /\ WF_vars(\E i \in Ids : RefuseFinder(i) \/ CreateParamFinder(i))
  /\ \A p \in Procs : WF_vars(FinderReports(p) \/ FinderCloses(p))
  /\ WF_vars(Renderer)

FairSpec == Spec /\ Fairness

-----------------------------------------------------------------------------
\* What "Analyze" starts is the metric of the dialog, on the file and column of
\* that metric, with the parameters its own finder found and the changes made
\* to those: results that come late for another dialog never mix in.
AnalyzeIsConsistent ==
  CanAnalyze =>
    /\ store.metricId = dialog /\ store.inputOpts = dialog /\ store.results = dialog
    /\ store.overrides \in {None, dialog}

\* An open dialog is told of results or of an error.
DialogIsAnswered == dialog # None ~> (dialog = None \/ store.results # None \/ store.error)

\* An open dialog can be left in the end.
DialogCanBeLeft == dialog # None ~> (dialog = None \/ CanDismiss)
=============================================================================
