------------------------- MODULE StudioParamsProofs -------------------------
(***************************************************************************)
(* What the create-model dialog of HTM Studio analyzes belongs together,    *)
(* for any metrics and finders: a dialog can only be left when the finder it *)
(* started has reported, so that no report comes for another dialog.        *)
(***************************************************************************)
EXTENDS StudioParams, TLAPS

UiMessage == [kind : {"create", "stderr", "data", "close"}, id : Ids, ok : BOOLEAN]

\* No report of a finder is to come: nothing was asked for that is not
\* answered, and no answer is on its way.
NothingAsked == toMain = <<>>
AllAnswered  == Live \subseteq answered
NoReport     == \A k \in 1 .. Len(toUi) : toUi[k].kind # "data"

\* A question is a command, then a finder that has not reported, then its
\* report: there is at most one, and it is that of the open dialog.
OneCommand ==
  NothingAsked \/ (toMain = <<[cmd |-> "create", id |-> dialog]>> /\ AllAnswered /\ NoReport)
OneFinder ==
  \A p \in Live \ answered :
    owner[p] = dialog /\ Live \subseteq answered \cup {p} /\ NothingAsked /\ NoReport
OneReport ==
  /\ \A k \in 1 .. Len(toUi) :
       toUi[k].kind = "data" => toUi[k].id = dialog /\ NothingAsked /\ AllAnswered
  /\ \A j, k \in 1 .. Len(toUi) : toUi[j].kind = "data" /\ toUi[k].kind = "data" => j = k

\* Without a dialog, and with results, the question has been answered.
Answered ==
  dialog = None \/ store.results # None => NothingAsked /\ AllAnswered /\ NoReport

\* What the store holds is about the dialog.
StoreFits ==
  /\ dialog = None => store.results = None /\ store.overrides = None
  /\ dialog # None => /\ store.metricId = dialog /\ store.inputOpts = dialog
                      /\ store.results \in {None, dialog} /\ store.overrides \in {None, dialog}

ParamsInv ==
  TypeOK /\ OneCommand /\ OneFinder /\ OneReport /\ Answered /\ StoreFits

USE ServiceAssumption

-----------------------------------------------------------------------------
\* Nothing is asked before the first dialog.
LEMMA InitInv == Init => ParamsInv
<1> SUFFICES ASSUME Init PROVE ParamsInv
  OBVIOUS
<1> USE DEF Init, ServiceInit, Reset
<1>1. TypeOK
  BY DEF TypeOK, Live
<1>2. NothingAsked /\ AllAnswered /\ NoReport
  BY DEF NothingAsked, AllAnswered, NoReport, Live
<1>3. OneCommand /\ OneFinder /\ OneReport /\ Answered
  BY <1>2 DEF OneCommand, OneFinder, OneReport, Answered, AllAnswered, NoReport
<1>4. StoreFits
  BY DEF StoreFits
<1> QED  BY <1>1, <1>3, <1>4 DEF ParamsInv

\* What a message adds to those on their way.
LEMMA MessageAdded ==
  ASSUME toUi \in Seq(UiMessage), NEW m \in UiMessage, toUi' = Append(toUi, m)
  PROVE  /\ toUi' \in Seq(UiMessage) /\ Len(toUi) \in Nat /\ Len(toUi') = Len(toUi) + 1
         /\ \A k \in 1 .. Len(toUi) : toUi'[k] = toUi[k]
         /\ toUi'[Len(toUi) + 1] = m
OBVIOUS

\* A message that is not a report changes no question.
LEMMA OtherMessage ==
  ASSUME toUi \in Seq(UiMessage), NEW i \in Ids, NEW ok \in BOOLEAN,
         NEW kind \in {"create", "stderr", "close"},
         toUi' \in {toUi, Append(toUi, Message(kind, i, ok))}
  PROVE  /\ toUi' \in Seq(UiMessage)
         /\ NoReport => NoReport'
         /\ \A k \in 1 .. Len(toUi') :
              toUi'[k].kind = "data" => k \in 1 .. Len(toUi) /\ toUi'[k] = toUi[k]
<1>1. CASE toUi' = toUi
  BY <1>1 DEF NoReport
<1>2. CASE toUi' = Append(toUi, Message(kind, i, ok))
  <2>1. Message(kind, i, ok) \in UiMessage /\ Message(kind, i, ok).kind # "data"
    BY DEF Message, UiMessage
  <2>2. /\ toUi' \in Seq(UiMessage) /\ Len(toUi) \in Nat /\ Len(toUi') = Len(toUi) + 1
        /\ \A k \in 1 .. Len(toUi) : toUi'[k] = toUi[k]
        /\ toUi'[Len(toUi) + 1].kind # "data"
    BY <1>2, <2>1, MessageAdded
  <2>3. \A k \in 1 .. Len(toUi') :
          toUi'[k].kind = "data" => k \in 1 .. Len(toUi) /\ toUi'[k] = toUi[k]
    BY <2>2
  <2> QED  BY <2>2, <2>3 DEF NoReport
<1> QED  BY <1>1, <1>2

-----------------------------------------------------------------------------
\* The command of the dialog is the first and the only one.
LEMMA TheCommand ==
  ASSUME ParamsInv, NEW i \in Ids, Receive("create", i)
  PROVE  i = dialog /\ toMain' = <<>> /\ AllAnswered /\ NoReport /\ store.results = None
<1>1. toMain = <<[cmd |-> "create", id |-> dialog]>> /\ AllAnswered /\ NoReport
  BY DEF ParamsInv, OneCommand, NothingAsked, Receive
<1>2. store.results = None
  BY <1>1 DEF ParamsInv, Answered, NothingAsked
<1> QED  BY <1>1, <1>2 DEF Receive

\* The command is refused, or starts a finder that has to report.
LEMMA CommandInv ==
  ASSUME ParamsInv, NEW i \in Ids, RefuseFinder(i) \/ CreateParamFinder(i)
  PROVE  ParamsInv'
<1> USE DEF ParamsInv
<1>1. Receive("create", i)
  BY DEF RefuseFinder, CreateParamFinder, RefuseCreate, CreateModel
<1>2. i = dialog /\ toMain' = <<>> /\ AllAnswered /\ NoReport /\ store.results = None
  BY <1>1, TheCommand
<1>a. UNCHANGED <<answered, dialog, store, killed>> /\ attached' = attached \cup {i}
  BY DEF RefuseFinder, CreateParamFinder, RefuseCreate, CreateModel, Reject
<1>b. toMain' \in Seq(Command)
  BY <1>2
<1>3. UNCHANGED <<answered, dialog, store, killed>> /\ attached' = attached \cup {i}
      /\ toMain' \in Seq(Command)
  BY <1>a, <1>b
<1>4. CASE RefuseFinder(i)
  <2>1. toUi' = Append(toUi, Message("create", i, FALSE)) /\ UNCHANGED <<models, owner>>
        /\ toUi \in Seq(UiMessage)
    BY <1>4 DEF RefuseFinder, RefuseCreate, Reject, TypeOK, UiMessage
  <2>2. toUi' \in Seq(UiMessage) /\ NoReport'
    BY <1>2, <2>1, OtherMessage
  <2>3. TypeOK'
    BY <1>3, <2>1, <2>2 DEF TypeOK, UiMessage, Live
  <2>4. NothingAsked' /\ AllAnswered'
    BY <1>2, <1>3, <2>1 DEF NothingAsked, AllAnswered, Live
  <2>5. OneCommand' /\ OneFinder' /\ OneReport' /\ Answered'
    BY <2>2, <2>4 DEF OneCommand, OneFinder, OneReport, Answered, AllAnswered, NoReport
  <2> QED  BY <1>3, <2>3, <2>5 DEF StoreFits
<1>5. CASE CreateParamFinder(i)
  <2>1. PICK p \in Procs \ Live :
          owner' = [owner EXCEPT ![p] = i] /\ models' = [models EXCEPT ![i] = p]
    BY <1>5 DEF CreateParamFinder, CreateModel
  <2>2. toUi' = toUi
    BY <1>5 DEF CreateParamFinder, CreateModel
  <2>3. Live' = Live \cup {p} /\ owner'[p] = i
    BY <2>1 DEF Live, TypeOK
  <2>4. TypeOK'
    BY <1>3, <2>1, <2>2, <2>3 DEF TypeOK, UiMessage
  <2>5. NothingAsked' /\ NoReport' /\ dialog # None
    BY <1>2, <2>2 DEF NothingAsked, NoReport
  <2>6. OneFinder'
    BY <1>2, <1>3, <2>3, <2>5 DEF OneFinder, AllAnswered
  <2>7. OneCommand' /\ OneReport' /\ Answered'
    BY <1>2, <1>3, <2>5 DEF OneCommand, OneReport, Answered, NoReport
  <2> QED  BY <1>3, <2>4, <2>6, <2>7 DEF StoreFits
<1> QED  BY <1>4, <1>5

\* A finder complains, or ends: what has not been reported will not be.
LEMMA NothingReported ==
  ASSUME ParamsInv, NEW p \in Live, FinderComplains(p) \/ FinderCloses(p)
  PROVE  ParamsInv'
<1> USE DEF ParamsInv
<1>1. /\ p \in Procs /\ owner[p] \in Ids /\ toUi \in Seq(UiMessage)
      /\ UNCHANGED <<attached, toMain, dialog, store>>
  BY DEF FinderComplains, FinderCloses, ChildComplains, ChildCloses, TypeOK, Live, UiMessage
<1>2. PICK kind \in {"stderr", "close"}, ok \in BOOLEAN : toUi' = Forward(owner[p], kind, ok)
  BY DEF FinderComplains, FinderCloses, ChildComplains, ChildCloses
<1>3. /\ toUi' \in Seq(UiMessage)
      /\ NoReport => NoReport'
      /\ \A k \in 1 .. Len(toUi') :
           toUi'[k].kind = "data" => k \in 1 .. Len(toUi) /\ toUi'[k] = toUi[k]
  <2>1. toUi' \in {toUi, Append(toUi, Message(kind, owner[p], ok))}
    BY <1>2 DEF Forward
  <2> QED  BY <1>1, <2>1, OtherMessage
<1>4. /\ models' \in [Ids -> Procs \cup {None}] /\ owner' \in [Procs -> Ids \cup {None}]
      /\ killed' = {} /\ Live' \subseteq Live /\ answered' \subseteq Live'
      /\ \A q \in Live' : owner'[q] = owner[q]
      /\ Live' \ answered' \subseteq Live \ answered
  <2>1. CASE FinderComplains(p)
    BY <2>1 DEF FinderComplains, ChildComplains, TypeOK, Live
  <2>2. CASE FinderCloses(p)
    <3>1. /\ models' = [models EXCEPT ![owner[p]] = None] /\ owner' = [owner EXCEPT ![p] = None]
          /\ killed' = killed \ {p} /\ answered' = answered \ {p}
      BY <2>2 DEF FinderCloses, ChildCloses
    <3>2. Live' = Live \ {p} /\ \A q \in Live' : owner'[q] = owner[q]
      BY <1>1, <3>1 DEF Live, TypeOK
    <3> QED  BY <1>1, <3>1, <3>2 DEF TypeOK
  <2> QED  BY <2>1, <2>2
<1>5. TypeOK'
  BY <1>1, <1>3, <1>4 DEF TypeOK, UiMessage
<1>6. AllAnswered => AllAnswered'
  BY <1>4 DEF AllAnswered
<1>7. NothingAsked' <=> NothingAsked
  BY <1>1 DEF NothingAsked
<1>8. OneCommand' /\ Answered' /\ StoreFits'
  BY <1>1, <1>3, <1>6, <1>7 DEF OneCommand, Answered, StoreFits
<1>9. OneFinder'
  BY <1>1, <1>3, <1>4, <1>7 DEF OneFinder
<1>10. OneReport'
  BY <1>1, <1>3, <1>6, <1>7 DEF OneReport
<1> QED  BY <1>5, <1>8, <1>9, <1>10

\* A finder reports: it is the only one that has not.
LEMMA FinderReportsInv ==
  ASSUME ParamsInv, NEW p \in Procs, FinderReports(p)
  PROVE  ParamsInv'
<1> USE DEF ParamsInv
<1>1. /\ p \in Live \ answered /\ answered' = answered \cup {p}
      /\ toUi' = Forward(owner[p], "data", TRUE)
      /\ UNCHANGED <<models, owner, killed, attached, toMain, dialog, store>>
      /\ toUi \in Seq(UiMessage)
  BY DEF FinderReports, TypeOK, UiMessage
<1>2. owner[p] = dialog /\ owner[p] \in Ids /\ Live \subseteq answered' /\ NothingAsked /\ NoReport
      /\ Live' = Live
  BY <1>1 DEF OneFinder, Live, TypeOK
<1>3. NothingAsked' /\ AllAnswered' /\ dialog # None /\ store.results = None
  BY <1>1, <1>2 DEF NothingAsked, AllAnswered, Answered
<1>4. toUi' \in Seq(UiMessage)
      /\ \A k \in 1 .. Len(toUi') :
           toUi'[k].kind = "data" => k = Len(toUi') /\ toUi'[k].id = dialog
  <2>1. CASE owner[p] \notin attached
    <3>1. toUi' = toUi
      BY <1>1, <2>1 DEF Forward
    <3> QED  BY <1>1, <1>2, <3>1 DEF NoReport
  <2>2. CASE owner[p] \in attached
    <3>1. toUi' = Append(toUi, Message("data", owner[p], TRUE))
      BY <1>1, <2>2 DEF Forward
    <3>2. Message("data", owner[p], TRUE) \in UiMessage
          /\ Message("data", owner[p], TRUE).id = dialog
      BY <1>2 DEF Message, UiMessage
    <3>3. /\ toUi' \in Seq(UiMessage) /\ Len(toUi) \in Nat /\ Len(toUi') = Len(toUi) + 1
          /\ \A k \in 1 .. Len(toUi) : toUi'[k] = toUi[k]
          /\ toUi'[Len(toUi) + 1].id = dialog
      BY <1>1, <3>1, <3>2, MessageAdded
    <3> QED  BY <1>2, <3>3 DEF NoReport
  <2> QED  BY <2>1, <2>2
<1>5. TypeOK'
  BY <1>1, <1>2, <1>4 DEF TypeOK, UiMessage
<1>6. OneCommand' /\ OneFinder' /\ Answered' /\ StoreFits'
  BY <1>1, <1>3 DEF OneCommand, OneFinder, Answered, StoreFits, AllAnswered
<1>7. OneReport'
  BY <1>1, <1>3, <1>4 DEF OneReport
<1> QED  BY <1>5, <1>6, <1>7

-----------------------------------------------------------------------------
\* The user opens a dialog, changes a setting, and leaves.
LEMMA UserInv ==
  ASSUME ParamsInv, (\E i \in Ids : OpenDialog(i)) \/ Override \/ Dismiss
  PROVE  ParamsInv'
<1> USE DEF ParamsInv
<1>0. UNCHANGED <<models, owner, killed, attached, toUi, answered>>
      /\ Live' = Live /\ (AllAnswered' <=> AllAnswered) /\ (NoReport' <=> NoReport)
  BY DEF OpenDialog, Override, Dismiss, Live, AllAnswered, NoReport
<1>1. ASSUME NEW i \in Ids, OpenDialog(i) PROVE ParamsInv'
  <2>1. /\ dialog = None /\ dialog' = i /\ i # None
        /\ toMain' = Append(toMain, [cmd |-> "create", id |-> i])
        /\ store' = [store EXCEPT !.metricId = i, !.inputOpts = i]
    BY <1>1 DEF OpenDialog
  <2>2. toMain = <<>> /\ AllAnswered /\ NoReport
        /\ store.results = None /\ store.overrides = None
    BY <2>1 DEF Answered, NothingAsked, StoreFits
  <2>3. toMain' = <<[cmd |-> "create", id |-> i]>> /\ toMain' \in Seq(Command)
    BY <2>1, <2>2 DEF Command
  <2>4. /\ store'.metricId = i /\ store'.inputOpts = i
        /\ store'.results = None /\ store'.overrides = None
        /\ store' \in [metricId : Ids \cup {None}, inputOpts : Ids \cup {None},
                       results : Ids \cup {None}, overrides : Ids \cup {None},
                       error : BOOLEAN]
    BY <2>1, <2>2 DEF TypeOK
  <2>5. TypeOK'
    BY <1>0, <2>1, <2>3, <2>4 DEF TypeOK
  <2>6. OneCommand' /\ OneFinder' /\ OneReport'
    BY <1>0, <2>1, <2>2, <2>3 DEF OneCommand, OneFinder, OneReport, AllAnswered, NoReport
  <2>7. Answered' /\ StoreFits'
    BY <2>1, <2>4 DEF Answered, StoreFits
  <2> QED  BY <2>5, <2>6, <2>7
<1>2. CASE Override
  <2>1. /\ UNCHANGED <<toMain, dialog>> /\ dialog # None /\ store.results = dialog
        /\ store' = [store EXCEPT !.overrides = store.results]
    BY <1>2 DEF Override, CanAnalyze, StoreFits
  <2>2. TypeOK'
    BY <1>0, <2>1 DEF TypeOK
  <2>3. OneCommand' /\ OneFinder' /\ OneReport'
    BY <1>0, <2>1 DEF OneCommand, OneFinder, OneReport, NothingAsked, NoReport
  <2>4. Answered' /\ StoreFits'
    BY <1>0, <2>1 DEF Answered, StoreFits, TypeOK, NothingAsked
  <2> QED  BY <2>2, <2>3, <2>4
<1>3. CASE Dismiss
  <2>1. /\ toMain' = toMain /\ dialog' = None /\ store' = Reset
        /\ NothingAsked /\ AllAnswered /\ NoReport
    BY <1>3 DEF Dismiss, CanDismiss, Answered
  <2>2. TypeOK'
    BY <1>0, <2>1 DEF TypeOK, Reset
  <2>3. NothingAsked' /\ AllAnswered' /\ NoReport'
    BY <1>0, <2>1 DEF NothingAsked
  <2>4. OneCommand' /\ OneFinder' /\ OneReport' /\ Answered' /\ StoreFits'
    BY <2>1, <2>3
    DEF OneCommand, OneFinder, OneReport, Answered, StoreFits, AllAnswered, NoReport, Reset
  <2> QED  BY <2>2, <2>4
<1> QED  BY <1>1, <1>2, <1>3

\* The renderer handles a message: a report is that of the dialog, and the last.
LEMMA RendererInv ==
  ASSUME ParamsInv, Renderer
  PROVE  ParamsInv'
<1> USE DEF ParamsInv
<1>1. /\ toUi # <<>> /\ toUi' = Tail(toUi) /\ toUi \in Seq(UiMessage)
      /\ UNCHANGED <<models, owner, killed, attached, toMain, answered, dialog>>
  BY DEF Renderer, ReceiveResults, HandleError, HandleClose, Handle, TypeOK, UiMessage
<1>2. /\ toUi' \in Seq(UiMessage) /\ Len(toUi) \in Nat \ {0} /\ Len(toUi') = Len(toUi) - 1
      /\ Head(toUi) = toUi[1] /\ Head(toUi) \in UiMessage
      /\ \A k \in 1 .. Len(toUi') : k + 1 \in 1 .. Len(toUi) /\ toUi'[k] = toUi[k + 1]
  BY <1>1
<1>3. Live' = Live /\ (AllAnswered' <=> AllAnswered) /\ (NothingAsked' <=> NothingAsked)
      /\ (NoReport => NoReport')
  BY <1>1, <1>2 DEF Live, AllAnswered, NothingAsked, NoReport
<1>4. OneCommand' /\ OneFinder'
  BY <1>1, <1>3 DEF OneCommand, OneFinder
<1>5. OneReport'
  BY <1>1, <1>2, <1>3 DEF OneReport
<1>6. CASE ReceiveResults
  <2>1. /\ Head(toUi).kind = "data"
        /\ store' = [store EXCEPT !.results = Head(toUi).id, !.metricId = Head(toUi).id]
    BY <1>6 DEF ReceiveResults, Handle
  <2>2. Head(toUi).id = dialog /\ dialog \in Ids /\ NothingAsked /\ AllAnswered
    BY <1>2, <2>1 DEF OneReport, UiMessage
  <2>3. NoReport'
    BY <1>2, <2>1 DEF OneReport, NoReport
  <2>4. Answered' /\ StoreFits'
    BY <1>1, <1>3, <2>1, <2>2, <2>3 DEF Answered, StoreFits, TypeOK
  <2>5. TypeOK'
    BY <1>1, <1>2, <1>3, <2>1, <2>2 DEF TypeOK, UiMessage
  <2> QED  BY <1>4, <1>5, <2>4, <2>5
<1>7. CASE HandleError \/ HandleClose
  <2>1. store' = store \/ store' = [store EXCEPT !.error = TRUE]
    BY <1>7 DEF HandleError, HandleClose
  <2>2. TypeOK'
    BY <1>1, <1>2, <1>3, <2>1 DEF TypeOK, UiMessage
  <2>3. Answered' /\ StoreFits'
    BY <1>1, <1>3, <2>1 DEF Answered, StoreFits, TypeOK
  <2> QED  BY <1>4, <1>5, <2>2, <2>3
<1> QED  BY <1>6, <1>7 DEF Renderer

\* Every step keeps the invariant.
LEMMA StepInv ==
  ASSUME ParamsInv, [Next]_vars
  PROVE  ParamsInv'
<1>1. CASE UNCHANGED vars
  <2> USE <1>1 DEF vars, ParamsInv
  <2>1. TypeOK'
    BY DEF TypeOK, Live
  <2>2. OneCommand' /\ OneFinder' /\ OneReport' /\ Answered' /\ StoreFits'
    BY DEF OneCommand, OneFinder, OneReport, Answered, StoreFits,
           NothingAsked, AllAnswered, NoReport, Live
  <2> QED  BY <2>1, <2>2
<1>2. \A p \in Procs : FinderComplains(p) \/ FinderCloses(p) => p \in Live
  BY DEF FinderComplains, FinderCloses, ChildComplains, ChildCloses
<1> QED
  BY <1>1, <1>2, CommandInv, NothingReported, FinderReportsInv, UserInv, RendererInv
  DEF Next, Main

\* The inductive invariant holds throughout.
THEOREM ParamsCorrect == Spec => []ParamsInv
  BY InitInv, StepInv, PTL DEF Spec

\* "Analyze" starts what the open dialog shows: no report of another dialog's
\* finder reaches CreateModelStore while it is open.
THEOREM DialogIsConsistent == Spec => []AnalyzeIsConsistent
<1>1. ParamsInv => AnalyzeIsConsistent
  BY DEF ParamsInv, StoreFits, AnalyzeIsConsistent, CanAnalyze
<1> QED  BY <1>1, ParamsCorrect, PTL

\* The model keeps its types: among others, only live finders count as having
\* reported, so that a process that is used again is a new finder.
THEOREM FindersKeepTypes == Spec => []TypeOK
<1>1. ParamsInv => TypeOK
  BY DEF ParamsInv
<1> QED  BY <1>1, ParamsCorrect, PTL
=============================================================================
