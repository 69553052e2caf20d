--------------------------- MODULE DialogsProofs ---------------------------
(***************************************************************************)
(* Proofs about Dialogs for any number of tabs, items and texts: dialogs    *)
(* use the scheduler as its users may, so what is proved of the scheduler   *)
(* holds with them; and they do what they show if users are careful.        *)
(***************************************************************************)
EXTENDS Dialogs, SchedulerProofs

\* The steps of a dialog, as the scheduler sees them.
UserStep == UNCHANGED vars \/ \E i \in Items : Save(i)

LEMMA ExecuteStep ==
    ASSUME NEW t, NEW text, NEW pl, Execute(t, text, pl) PROVE UNCHANGED vars
BY DEF Execute, Lost

LEMMA FinishStep ==
    ASSUME NEW t, NEW text, NEW pl, FinishScheduling(t, text, pl) PROVE UserStep
BY DEF FinishScheduling, Lost, UserStep

\* A tab saves an item or leaves the scheduler alone.
LEMMA DialogStep == ASSUME NEW t \in Tabs, Dialog(t) PROVE UserStep
<1>1. CASE Index(t)
  BY <1>1 DEF Index, UserStep
<1>2. ASSUME NEW p \in Purposes, Open(t, p) PROVE UserStep
  BY <1>2 DEF Open, UserStep
<1>3. ASSUME NEW x \in Texts, SubmitForm(t, x) PROVE UserStep
  BY <1>3 DEF SubmitForm, Lost, UserStep
<1>4. ASSUME NEW x \in Texts, SubmitLastForm(t, x) PROVE UserStep
  BY <1>4, ExecuteStep, FinishStep DEF SubmitLastForm, Lost, UserStep
<1>5. ASSUME NEW x \in Texts, SubmitCanvas(t, x) PROVE UserStep
  BY <1>5, ExecuteStep DEF SubmitCanvas, Lost, UserStep
<1>6. CASE SubmitFilter(t)
  BY <1>6, ExecuteStep, FinishStep DEF SubmitFilter, UserStep
<1>7. CASE Back(t)
  BY <1>7 DEF Back, Lost, UserStep
<1>8. QED
  BY <1>1, <1>2, <1>3, <1>4, <1>5, <1>6, <1>7 DEF Dialog

LEMMA StepRefinesScheduler ==
    ASSUME [DialogNext]_allVars PROVE [CrashNext]_vars
<1>1. CASE UNCHANGED allVars
  BY <1>1 DEF allVars
<1>2. ASSUME NEW t \in Tabs, Dialog(t) PROVE [CrashNext]_vars
  BY <1>2, DialogStep DEF UserStep, CrashNext, Next
<1>3. CASE Elsewhere
  BY <1>3 DEF Elsewhere, CrashNext, Next
<1>4. QED
  BY <1>1, <1>2, <1>3 DEF DialogNext

\* Dialogs, in whatever tabs and order, use the scheduler as Spec allows.
THEOREM DialogsUseScheduler == DialogSpec => Spec
<1>1. DialogInit => Init
  BY DEF DialogInit
<1>2. [DialogNext]_allVars => [CrashNext]_vars
  BY StepRefinesScheduler
<1>3. QED
  BY <1>1, <1>2, PTL DEF DialogSpec, Spec

\* What was scheduled through dialogs is executed at most once per version by
\* one worker at a time.
THEOREM DialogsOnce == ASSUME OneWorker PROVE DialogSpec => []AtMostOnce
BY OnceSafety, DialogsUseScheduler, PTL

\* And the status of an item is true of what its last dialog has saved.
THEOREM DialogsStatus == ASSUME OneWorker PROVE DialogSpec => []StatusIsTrue
BY StatusSafety, DialogsUseScheduler, PTL

\* What is asked for through dialogs goes into the book of jobs, and ends there
\* as the only execution of it ended.
THEOREM DialogsKeepTheBook == ASSUME OneWorker PROVE DialogSpec => KeepsTheBook
BY SchedulerKeepsTheBook, DialogsUseScheduler, PTL
-----------------------------------------------------------------------------
(* Types.                                                                    *)

\* A page of a dialog is about something.
Located ==
    \A t \in Tabs : page[t] \in {"form", "filter"} =>
        shown[t] \in Purposes /\ form[t] \in Purposes

TInv == DialogTypes /\ Located

\* What is in a purpose.
LEMMA PurposeFields ==
    ASSUME NEW p \in Purposes
    PROVE  /\ p.op \in {"run", "new", "edit"} /\ p.action \in Actions
           /\ p.item \in Items \cup {None}
           /\ p.item # None <=> p.op = "edit"
           /\ p.op = "edit" => p.action = ActionOf[p.item]
           /\ p = [op |-> p.op, action |-> p.action, item |-> p.item]
BY DialogsAssumption, SchedulerAssumption DEF Purposes

\* And how to make one.
LEMMA PurposeMade ==
    /\ \A a \in Actions : /\ [op |-> "run", action |-> a, item |-> None] \in Purposes
                          /\ [op |-> "new", action |-> a, item |-> None] \in Purposes
    /\ \A i \in Items : [op |-> "edit", action |-> ActionOf[i], item |-> i] \in Purposes
BY DEF Purposes

\* The payload of a form is a payload.
LEMMA CarriedType ==
    ASSUME NEW p \in Purposes, NEW pl \in Carried(p),
           payload = None \/ payload \in Payloads
    PROVE  pl \in Payloads
<1>1. CASE payload = None
  BY <1>1, PurposeFields DEF Carried, NewPayloads, Payloads
<1>2. CASE payload # None
  BY <1>2, PurposeFields DEF Carried, Payloads
<1>3. QED
  BY <1>1, <1>2

LEMMA FilledType ==
    ASSUME TInv, NEW t \in Tabs, page[t] = "form", NEW text \in Texts,
           NEW pl \in Filled(t, text)
    PROVE  /\ pl \in Payloads /\ pl.text = text /\ pl.filledBy = shown[t]
           /\ \E q \in Carried(form[t]) :
                 q \in Payloads /\ pl = [q EXCEPT !.text = text, !.filledBy = shown[t]]
<1>1. PICK q \in Carried(form[t]) :
         pl = [q EXCEPT !.text = text, !.filledBy = shown[t]]
  BY DEF Filled
<1>2. shown[t] \in Purposes /\ q \in Payloads
  BY CarriedType DEF TInv, Located, DialogTypes
<1>3. QED
  BY <1>1, <1>2 DEF Payloads

\* The first page of a payload is a page.
LEMMA FirstPageType == ASSUME NEW pl \in Payloads PROVE FirstPage(pl) \in Purposes
BY PurposeMade DEF FirstPage, Payloads

\* Leaving a dialog.
LEMMA LeaveType ==
    ASSUME TInv, NEW t \in Tabs, NEW where \in {"index", "away"}, Leave(t, where),
           payload' = payload \/ payload' = None,
           \A m \in mistakes' : m.asked \in Purposes
    PROVE  TInv'
<1> USE DEF TInv, DialogTypes, Leave, Show
<1>1. DialogTypes'
  OBVIOUS
<1>2. Located'
  BY DEF Located
<1>3. QED
  BY <1>1, <1>2

LEMMA NoteType ==
    ASSUME NEW t \in Tabs, NEW text, NEW did, NEW by, NEW used,
           Note(t, text, did, by, used), shown[t] \in Purposes,
           \A m \in mistakes : m.asked \in Purposes
    PROVE  \A m \in mistakes' : m.asked \in Purposes
BY DEF Note

LEMMA LostType == ASSUME TInv, NEW t \in Tabs, Lost(t) PROVE TInv'
BY LeaveType DEF Lost, TInv, DialogTypes

LEMMA EndType ==
    ASSUME TInv, NEW t \in Tabs, page[t] \in {"form", "filter"}, NEW text, NEW pl,
           Execute(t, text, pl) \/ FinishScheduling(t, text, pl)
    PROVE  TInv'
<1>0. shown[t] \in Purposes /\ \A m \in mistakes : m.asked \in Purposes
  BY DEF TInv, Located, DialogTypes
<1>1. CASE Lost(t)
  BY <1>1, LostType
<1>2. ASSUME Done(t), NEW did, NEW by, NEW used, Note(t, text, did, by, used)
      PROVE  TInv'
  <2>1. \A m \in mistakes' : m.asked \in Purposes
    BY <1>0, <1>2, NoteType
  <2>2. QED
    BY <1>2, <2>1, LeaveType DEF Done
<1>3. QED
  BY <1>1, <1>2 DEF Execute, FinishScheduling

LEMMA TypesStep == ASSUME TInv, [DialogNext]_allVars PROVE TInv'
<1>1. CASE UNCHANGED dialogVars
  BY <1>1 DEF dialogVars, TInv, DialogTypes, Located
<1>2. ASSUME NEW t \in Tabs, Index(t) PROVE TInv'
  BY <1>2, LeaveType DEF Index, TInv, DialogTypes
<1>3. ASSUME NEW t \in Tabs, NEW p \in Purposes, Open(t, p) PROVE TInv'
  <2>1. payload' \in Payloads
    BY <1>3, CarriedType DEF Open, TInv, DialogTypes
  <2>2. QED
    BY <1>3, <2>1 DEF Open, Show, TInv, DialogTypes, Located
<1>4. ASSUME NEW t \in Tabs, NEW x \in Texts, SubmitForm(t, x) PROVE TInv'
  <2>1. CASE Lost(t)
    BY <2>1, LostType
  <2>2. ASSUME NEW pl \in Filled(t, x), payload' = pl,
               Show(t, "filter", shown[t], FirstPage(pl), x), UNCHANGED mistakes
        PROVE  TInv'
    <3>1. pl \in Payloads /\ FirstPage(pl) \in Purposes
      BY <1>4, <2>2, FilledType, FirstPageType DEF SubmitForm
    <3>2. shown[t] \in Purposes
      BY <1>4 DEF SubmitForm, TInv, Located
    <3>3. QED
      BY <2>2, <3>1, <3>2 DEF Show, TInv, DialogTypes, Located
  <2>3. QED
    BY <1>4, <2>1, <2>2 DEF SubmitForm
<1>5. ASSUME NEW t \in Tabs, NEW x \in Texts, SubmitLastForm(t, x) PROVE TInv'
  BY <1>5, LostType, EndType DEF SubmitLastForm
<1>6. ASSUME NEW t \in Tabs, NEW x \in Texts, SubmitCanvas(t, x) PROVE TInv'
  BY <1>6, LostType, EndType DEF SubmitCanvas
<1>7. ASSUME NEW t \in Tabs, SubmitFilter(t) PROVE TInv'
  <2>1. CASE Leave(t, "index") /\ UNCHANGED <<payload, mistakes>>
    BY <2>1, LeaveType DEF TInv, DialogTypes
  <2>2. QED
    BY <1>7, <2>1, EndType DEF SubmitFilter
<1>8. ASSUME NEW t \in Tabs, Back(t) PROVE TInv'
  <2>1. CASE Lost(t)
    BY <2>1, LostType
  <2>2. CASE ~ Lost(t)
    BY <1>8, <2>2 DEF Back, Show, TInv, DialogTypes, Located
  <2>3. QED
    BY <2>1, <2>2
<1>9. QED
  BY <1>1, <1>2, <1>3, <1>4, <1>5, <1>6, <1>7, <1>8
     DEF DialogNext, Dialog, Elsewhere, allVars

\* Pages and the payload are well-formed for any users and any number of tabs.
THEOREM DialogTypesHold == DialogSpec => []DialogTypes
<1>1. DialogInit => TInv
  BY DEF DialogInit, TInv, DialogTypes, Located
<1>2. TInv /\ [DialogNext]_allVars => TInv'
  BY TypesStep
<1>3. TInv => DialogTypes
  BY DEF TInv
<1>4. QED
  BY <1>1, <1>2, <1>3, PTL DEF DialogSpec
-----------------------------------------------------------------------------
(* Careful users.                                                            *)

\* One dialog at a time, and no payload in front of a list.
OneDialog ==
    /\ \A t, u \in Tabs : t # u => page[t] = "index" \/ page[u] = "index"
    /\ (\A t \in Tabs : page[t] = "index") => payload = None

\* The payload pl is for purpose p.
For(pl, p) == /\ pl.post = IF p.op = "run" THEN "run" ELSE "schedule"
              /\ pl.action = p.action /\ pl.item = p.item

\* Form f belongs to a dialog about p: its first page, or that of a new item.
FormOf(f, p) == /\ f.action = p.action
                /\ f.op = "run" <=> p.op = "run"
                /\ f.op = "edit" => f = p

PayloadServes ==
    \A t \in Tabs : page[t] \in {"form", "filter"} =>
        /\ payload \in Payloads
        /\ For(payload, shown[t]) /\ FormOf(form[t], shown[t])
        /\ page[t] = "filter" =>
               payload.filledBy = shown[t] /\ payload.text = typed[t]

DInv == TInv /\ OneDialog /\ PayloadServes /\ DoesWhatItShows

\* The payload of a page is there.
LEMMA PayloadThere == ASSUME DInv, NEW t \in Tabs, page[t] \in {"form", "filter"}
                      PROVE  payload # None /\ payload \in Payloads
BY DialogsAssumption DEF DInv, PayloadServes

\* The tab that is in a dialog is the only one.
LEMMA LeaveDInv ==
    ASSUME DInv, TInv', NEW t \in Tabs, NEW where \in {"index", "away"},
           Leave(t, where), payload' = payload \/ payload' = None,
           \A u \in Tabs \ {t} : page[u] = "index",
           where = "index" => payload' = None,
           DoesWhatItShows'
    PROVE  DInv'
<1> USE DEF DInv, Leave, Show
<1>1. /\ page'[t] = where
      /\ \A u \in Tabs \ {t} : page'[u] = "index"
  BY DEF TInv, DialogTypes
<1>2. OneDialog'
  <2>1. CASE payload = None
    BY <1>1, <2>1 DEF OneDialog
  <2>2. CASE where = "index"
    BY <1>1, <2>2 DEF OneDialog
  <2>3. CASE where = "away"
    BY <1>1, <2>3 DEF OneDialog
  <2>4. QED
    BY <2>1, <2>2, <2>3
<1>3. PayloadServes'
  BY <1>1 DEF PayloadServes
<1>4. QED
  BY <1>2, <1>3

LEMMA Alone1 ==
    ASSUME DInv, NEW t \in Tabs, page[t] # "index"
    PROVE  \A u \in Tabs \ {t} : page[u] = "index"
BY DEF DInv, OneDialog

LEMMA LostDInv ==
    ASSUME DInv, TInv', NEW t \in Tabs, page[t] # "index", Lost(t) PROVE DInv'
<1>1. DoesWhatItShows'
  BY DEF Lost, DInv, DoesWhatItShows
<1>2. QED
  BY <1>1, Alone1, LeaveDInv DEF Lost

\* A dialog that ends with a payload for what it shows makes no mistake.
LEMMA EndDInv ==
    ASSUME DInv, TInv', NEW t \in Tabs, page[t] \in {"form", "filter"}, NEW text,
           NEW pl \in Payloads, For(pl, shown[t]),
           \/ pl.filledBy = shown[t] /\ pl.text = text
           \/ shown[t].action \in Canvas,
           \/ Execute(t, text, pl) /\ shown[t].op = "run"
           \/ FinishScheduling(t, text, pl) /\ shown[t].op # "run"
    PROVE  DInv'
<1>1. CASE Lost(t)
  BY <1>1, LostDInv
<1>2. shown[t] \in Purposes
  BY DEF DInv, TInv, Located
<1>3. ASSUME Done(t), Note(t, text, shown[t], pl.filledBy, pl.text) PROVE DInv'
  <2>1. DoesWhatItShows'
    BY <1>3 DEF Note, DInv, DoesWhatItShows
  <2>2. QED
    BY <1>3, <2>1, Alone1, LeaveDInv DEF Done
<1>4. CASE Execute(t, text, pl) /\ shown[t].op = "run"
  <2>1. shown[t] = [op |-> "run", action |-> pl.action, item |-> None]
    BY <1>2, <1>4, PurposeFields DEF For
  <2>2. QED
    BY <1>1, <1>3, <1>4, <2>1 DEF Execute
<1>5. CASE FinishScheduling(t, text, pl) /\ shown[t].op # "run"
  <2>1. pl.item = None =>
          shown[t] = [op |-> "new", action |-> pl.action, item |-> None]
    BY <1>2, <1>5, PurposeFields DEF For
  <2>2. pl.item # None =>
          shown[t] = [op |-> "edit", action |-> ActionOf[pl.item], item |-> pl.item]
    BY <1>2, <1>5, PurposeFields DEF For
  <2>3. QED
    BY <1>1, <1>3, <1>5, <2>1, <2>2 DEF FinishScheduling
<1>6. QED
  BY <1>4, <1>5

\* A careful user's form is filled into the payload of its own dialog.
LEMMA FilledFor ==
    ASSUME DInv, NEW t \in Tabs, page[t] = "form", NEW text \in Texts,
           NEW pl \in Filled(t, text)
    PROVE  /\ pl \in Payloads /\ For(pl, shown[t])
           /\ pl.filledBy = shown[t] /\ pl.text = text
<1>1. PICK q \in Carried(form[t]) :
         q \in Payloads /\ pl = [q EXCEPT !.text = text, !.filledBy = shown[t]]
  BY FilledType DEF DInv
<1>2. form[t] \in Purposes /\ shown[t] \in Purposes
  BY DEF DInv, TInv, Located
<1>3. For(payload, shown[t]) /\ FormOf(form[t], shown[t])
  BY DEF DInv, PayloadServes
<1>4. For(q, shown[t])
  BY <1>1, <1>2, <1>3, PayloadThere DEF Carried, For, FormOf, Payloads
<1>5. For(pl, shown[t])
  BY <1>1, <1>4 DEF For, Payloads
<1>6. QED
  BY <1>5, FilledType DEF DInv

LEMMA CarefulStep ==
    ASSUME Careful = TRUE, DInv, [DialogNext]_allVars PROVE DInv'
<1>t. TInv'
  BY TypesStep DEF DInv
<1>1. CASE UNCHANGED dialogVars
  BY <1>1, <1>t
     DEF dialogVars, DInv, OneDialog, PayloadServes, DoesWhatItShows
<1>2. ASSUME NEW t \in Tabs, Index(t) PROVE DInv'
  <2>1. DoesWhatItShows'
    BY <1>2 DEF Index, DInv, DoesWhatItShows
  <2>2. QED
    BY <1>2, <1>t, <2>1, LeaveDInv DEF Index
<1>3. ASSUME NEW t \in Tabs, NEW p \in Purposes, Open(t, p) PROVE DInv'
  <2>1. payload = None /\ \A u \in Tabs : page[u] = "index"
    BY <1>3 DEF Open, DInv, OneDialog
  <2>2. payload' \in Payloads /\ For(payload', p)
    BY <1>3, <2>1, CarriedType, PurposeFields
       DEF Open, Carried, NewPayloads, For
  <2>3. /\ page'[t] = "form" /\ shown'[t] = p /\ form'[t] = p
        /\ \A u \in Tabs \ {t} : page'[u] = "index"
    BY <1>3, <2>1 DEF Open, Show, DInv, TInv, DialogTypes
  <2>4. OneDialog' /\ PayloadServes'
    BY <2>2, <2>3 DEF OneDialog, PayloadServes, FormOf
  <2>5. QED
    BY <1>3, <1>t, <2>4 DEF Open, DInv, DoesWhatItShows
<1>4. ASSUME NEW t \in Tabs, NEW x \in Texts, SubmitForm(t, x) PROVE DInv'
  <2>1. CASE Lost(t)
    BY <1>4, <1>t, <2>1, LostDInv DEF SubmitForm
  <2>2. ASSUME NEW pl \in Filled(t, x), payload' = pl,
               Show(t, "filter", shown[t], FirstPage(pl), x), UNCHANGED mistakes
        PROVE  DInv'
    <3>1. /\ pl \in Payloads /\ For(pl, shown[t])
          /\ pl.filledBy = shown[t] /\ pl.text = x
      BY <1>4, <2>2, FilledFor DEF SubmitForm
    <3>2. /\ page'[t] = "filter" /\ shown'[t] = shown[t]
          /\ form'[t] = FirstPage(pl) /\ typed'[t] = x
          /\ \A u \in Tabs \ {t} : page'[u] = page[u]
      BY <2>2 DEF Show, DInv, TInv, DialogTypes
    <3>3. FormOf(FirstPage(pl), shown[t])
      BY <3>1 DEF FirstPage, FormOf, For
    <3>4. \A u \in Tabs \ {t} : page'[u] = "index"
      BY <1>4, <3>2, Alone1 DEF SubmitForm
    <3>5. OneDialog' /\ PayloadServes'
      BY <2>2, <3>1, <3>2, <3>3, <3>4 DEF OneDialog, PayloadServes
    <3>6. QED
      BY <1>t, <2>2, <3>5 DEF DInv, DoesWhatItShows
  <2>3. QED
    BY <1>4, <2>1, <2>2 DEF SubmitForm
<1>5. ASSUME NEW t \in Tabs, NEW x \in Texts, SubmitLastForm(t, x) PROVE DInv'
  <2>1. CASE Lost(t)
    BY <1>5, <1>t, <2>1, LostDInv DEF SubmitLastForm
  <2>2. ASSUME NEW pl \in Filled(t, x),
               IF form[t].op = "run" THEN Execute(t, x, pl)
               ELSE FinishScheduling(t, x, pl)
        PROVE  DInv'
    <3>1. /\ pl \in Payloads /\ For(pl, shown[t])
          /\ pl.filledBy = shown[t] /\ pl.text = x
      BY <1>5, <2>2, FilledFor DEF SubmitLastForm
    <3>2. form[t].op = "run" <=> shown[t].op = "run"
      BY <1>5 DEF SubmitLastForm, DInv, PayloadServes, FormOf
    <3>3. QED
      BY <1>5, <1>t, <2>2, <3>1, <3>2, EndDInv DEF SubmitLastForm
  <2>3. QED
    BY <1>5, <2>1, <2>2 DEF SubmitLastForm
<1>6. ASSUME NEW t \in Tabs, NEW x \in Texts, SubmitCanvas(t, x) PROVE DInv'
  <2>1. CASE Lost(t)
    BY <1>6, <1>t, <2>1, LostDInv DEF SubmitCanvas
  <2>2. CASE Execute(t, x, payload)
    <3>1. /\ payload \in Payloads /\ For(payload, shown[t])
          /\ shown[t].action \in Canvas /\ shown[t].op = "run"
      BY <1>6 DEF SubmitCanvas, DInv, PayloadServes, FormOf
    <3>2. QED
      BY <1>6, <1>t, <2>2, <3>1, EndDInv DEF SubmitCanvas
  <2>3. QED
    BY <1>6, <2>1, <2>2 DEF SubmitCanvas
<1>7. ASSUME NEW t \in Tabs, SubmitFilter(t) PROVE DInv'
  <2>1. /\ payload # None /\ payload \in Payloads /\ For(payload, shown[t])
        /\ payload.filledBy = shown[t] /\ payload.text = typed[t]
    BY <1>7, PayloadThere DEF SubmitFilter, DInv, PayloadServes
  <2>2. QED
    BY <1>7, <1>t, <2>1, EndDInv DEF SubmitFilter, For
<1>8. ASSUME NEW t \in Tabs, Back(t) PROVE DInv'
  <2>1. CASE Lost(t)
    BY <1>8, <1>t, <2>1, LostDInv DEF Back
  <2>2. CASE ~ Lost(t)
    <3>1. FormOf(form[t], shown[t])
      BY <1>8 DEF Back, DInv, PayloadServes
    <3>2. /\ page'[t] = "form" /\ shown'[t] = shown[t] /\ form'[t] = form[t]
          /\ payload' = payload /\ mistakes' = mistakes
          /\ \A u \in Tabs \ {t} : page'[u] = page[u]
      BY <1>8, <2>2, <3>1 DEF Back, Show, FormOf, DInv, TInv, DialogTypes
    <3>3. \A u \in Tabs \ {t} : page'[u] = "index"
      BY <1>8, <3>2, Alone1 DEF Back
    <3>4. OneDialog' /\ PayloadServes'
      BY <1>8, <3>2, <3>3 DEF Back, DInv, OneDialog, PayloadServes
    <3>5. QED
      BY <1>t, <3>2, <3>4 DEF DInv, DoesWhatItShows
  <2>3. QED
    BY <2>1, <2>2
<1>9. QED
  BY <1>1, <1>2, <1>3, <1>4, <1>5, <1>6, <1>7, <1>8
     DEF DialogNext, Dialog, Elsewhere, allVars

\* A dialog does what it shows if users start dialogs from a list and one at a
\* time, whatever becomes of actions and items meanwhile, and although "back"
\* leads to another form.
THEOREM DialogsDoWhatTheyShow ==
    ASSUME Careful = TRUE PROVE DialogSpec => []DoesWhatItShows
<1>1. DialogInit => DInv
  BY DEF DialogInit, DInv, TInv, DialogTypes, Located, OneDialog, PayloadServes,
         DoesWhatItShows
<1>2. DInv /\ [DialogNext]_allVars => DInv'
  BY CarefulStep
<1>3. DInv => DoesWhatItShows
  BY DEF DInv
<1>4. QED
  BY <1>1, <1>2, <1>3, PTL DEF DialogSpec
=============================================================================
