------------------------------ MODULE Dialogs ------------------------------
(***************************************************************************)
(* The dialogs that execute an action now, schedule it, or edit a scheduled *)
(* action (action/views/run.py, run_email.py, run_json.py, run_zip.py,      *)
(* run_canvas_email.py, scheduler/views/crud.py and save.py), in the tabs   *)
(* of one browser, on top of Scheduler, whose items they save.              *)
(*                                                                          *)
(* A dialog has a form and, if the user asks for it, a page that excludes   *)
(* recipients.  What is gathered is kept in the session, under one name for *)
(* all tabs ("action_run_payload"): the first page creates the payload if   *)
(* there is none, the lists of actions and of scheduled actions and the     *)
(* last page of a dialog clear it.  Actions that only send a list have no   *)
(* payload and are left out.                                                *)
(***************************************************************************)
EXTENDS Scheduler

CONSTANTS
    Tabs,      \* pages of one browser
    Canvas,    \* the actions that send Canvas messages
    Texts,     \* what may be typed into a form
    Careful,   \* users start dialogs from a list, one at a time
    None       \* no payload, no item, no text

\* What a dialog is about: "run" an action, schedule a "new" item, "edit" one.
Purposes ==
    [op : {"run", "new"}, action : Actions, item : {None}]
        \cup {[op |-> "edit", action |-> ActionOf[i], item |-> i] : i \in Items}

\* The page that follows the last one is "run" or "schedule"; text is what the
\* form has stored.
Payloads == [post : {"run", "schedule"}, action : Actions,
             item : Items \cup {None}, text : Texts \cup {None},
             filledBy : Purposes \cup {None}]

ASSUME DialogsAssumption ==
    /\ Canvas \subseteq Actions
    /\ Careful \in BOOLEAN
    /\ None \notin Items \cup Actions \cup Texts \cup Purposes \cup Payloads

VARIABLES
    page,      \* per tab: "index", "form", "filter" or "away"
    shown,     \* per tab: the dialog that it is about
    form,      \* per tab: the form that it shows, or that "back" leads to
    typed,     \* per tab: the text of the form
    payload,   \* of the session, or None
    mistakes   \* history: dialogs that did not do what they showed

dialogVars == <<page, shown, form, typed, payload, mistakes>>
allVars == <<vars, dialogVars>>

DialogTypes ==
    /\ page \in [Tabs -> {"index", "form", "filter", "away"}]
    /\ shown \in [Tabs -> Purposes \cup {None}]
    /\ form \in [Tabs -> Purposes \cup {None}]
    /\ typed \in [Tabs -> Texts \cup {None}]
    /\ payload = None \/ payload \in Payloads
    /\ \A m \in mistakes : m.asked \in Purposes

DialogInit ==
    /\ Init
    /\ page = [t \in Tabs |-> "index"]
    /\ shown = [t \in Tabs |-> None]
    /\ form = [t \in Tabs |-> None]
    /\ typed = [t \in Tabs |-> None]
    /\ payload = None
    /\ mistakes = {}
-----------------------------------------------------------------------------
Show(t, where, purpose, f, text) ==
    /\ page' = [page EXCEPT ![t] = where]
    /\ shown' = [shown EXCEPT ![t] = purpose]
    /\ form' = [form EXCEPT ![t] = f]
    /\ typed' = [typed EXCEPT ![t] = text]

Leave(t, where) == Show(t, where, None, None, None)

\* The pages of a purpose are there as long as what it is about.
Available(p) ==
    /\ p.action \in actions
    /\ p.op = "edit" => status[p.item] # "none"

\* An item that is edited brings the text it was saved with.
NewPayloads(p) ==
    [post : {IF p.op = "run" THEN "run" ELSE "schedule"},
     action : {p.action}, item : {p.item},
     text : IF p.op = "edit" THEN Texts ELSE {None}, filledBy : {None}]

\* The payload that a form works with: that of the session if there is one,
\* with the id of the item if an item is edited.
Carried(p) ==
    IF payload = None THEN NewPayloads(p)
    ELSE {IF p.op = "edit" THEN [payload EXCEPT !.item = p.item] ELSE payload}

\* Mutant of FirstPage: the page of the item.
FirstPageItem(pl) == [op |-> IF pl.post = "run" THEN "run" ELSE "edit",
                      action |-> pl.action, item |-> pl.item]

\* The first page again, to which the page of recipients leads back: for a
\* scheduled action, also if it is edited, that of a new one.
FirstPage(pl) == [op |-> IF pl.post = "run" THEN "run" ELSE "new",
                  action |-> pl.action, item |-> None]

\* Mutant of Index: the list leaves the payload in the session.
IndexOnly(t) ==
    /\ page[t] # "index"
    /\ Leave(t, "index")
    /\ UNCHANGED <<vars, payload, mistakes>>

\* The list of actions, or of scheduled actions.
Index(t) ==
    /\ page[t] # "index" \/ payload # None
    /\ Careful => \A u \in Tabs \ {t} : page[u] = "index"
    /\ Leave(t, "index")
    /\ payload' = None
    /\ UNCHANGED <<vars, mistakes>>

\* The first page of a dialog is opened.
Open(t, p) ==
    /\ Careful => \A u \in Tabs : page[u] = "index"
    /\ Available(p)
    /\ Show(t, "form", p, p, None)
    /\ payload' \in Carried(p)
    /\ UNCHANGED <<vars, mistakes>>

\* A request that does not find what it is about, or raises an exception.
Lost(t) ==
    /\ Leave(t, "away")
    /\ UNCHANGED <<vars, payload, mistakes>>

\* A dialog has done something: whether it is what the tab was about.
Note(t, text, did, by, used) ==
    mistakes' = IF did = shown[t] /\ by = shown[t] /\ used = text
                THEN mistakes
                ELSE mistakes \cup {[asked |-> shown[t], did |-> did]}

Done(t) == Leave(t, "away") /\ payload' = None

\* run_email_done, run_json_done, run_zip_done, run_canvas_email_done.
Execute(t, text, pl) ==
    IF pl.action \in actions
    THEN /\ Done(t)
         /\ Note(t, text, [op |-> "run", action |-> pl.action, item |-> None],
                 pl.filledBy, pl.text)
         /\ UNCHANGED vars
    ELSE Lost(t)

\* finish_scheduling: a payload with the id of an item overwrites that item.
FinishScheduling(t, text, pl) ==
    IF pl.action \notin actions \/ (pl.item # None /\ status[pl.item] = "none")
    THEN Lost(t)
    ELSE \E i \in Items :
            /\ IF pl.item = None
               THEN ActionOf[i] = pl.action /\ saved[i] = 0
               ELSE i = pl.item
            /\ Save(i)
            /\ Done(t)
            /\ Note(t, text,
                    IF pl.item = None
                    THEN [op |-> "new", action |-> pl.action, item |-> None]
                    ELSE [op |-> "edit", action |-> ActionOf[i], item |-> i],
                    pl.filledBy, pl.text)

\* What a form works with when it is sent: its text is stored in the payload.
Filled(t, text) == {[pl EXCEPT !.text = text, !.filledBy = shown[t]] :
                       pl \in Carried(form[t])}

\* The form is sent, and the user wants to look at the recipients.
SubmitForm(t, text) ==
    /\ page[t] = "form"
    /\ IF Available(form[t])
       THEN \E pl \in Filled(t, text) :
               /\ payload' = pl
               /\ Show(t, "filter", shown[t], FirstPage(pl), text)
               /\ UNCHANGED <<vars, mistakes>>
       ELSE Lost(t)

\* Or does not, and this is the last page.
SubmitLastForm(t, text) ==
    /\ page[t] = "form"
    /\ form[t].op # "run" \/ form[t].action \notin Canvas
    /\ IF ~ Available(form[t])
       THEN Lost(t)
       ELSE \E pl \in Filled(t, text) :
               IF form[t].op = "run"
               THEN Execute(t, text, pl)
               ELSE FinishScheduling(t, text, pl)

\* Without the page of recipients, a Canvas action is sent with the payload of
\* the session, which the form has not been stored in.
SubmitCanvas(t, text) ==
    /\ page[t] = "form"
    /\ form[t].op = "run" /\ form[t].action \in Canvas
    /\ IF Available(form[t]) /\ payload # None /\ payload.text # None
       THEN Execute(t, text, payload)
       ELSE Lost(t)

\* The page of recipients is sent; where it leads is in the payload.
SubmitFilter(t) ==
    /\ page[t] = "filter"
    /\ IF payload = None
       THEN Leave(t, "index") /\ UNCHANGED <<vars, payload, mistakes>>
       ELSE IF payload.post = "run"
       THEN Execute(t, typed[t], payload)
       ELSE FinishScheduling(t, typed[t], payload)

\* From the page of recipients back to the form, which is that of the payload.
Back(t) ==
    /\ page[t] = "filter"
    /\ IF Available(form[t])
       THEN /\ Show(t, "form",
                    IF /\ form[t].action = shown[t].action
                       /\ form[t].op = "run" <=> shown[t].op = "run"
                    THEN shown[t] ELSE form[t],
                    form[t], None)
            /\ UNCHANGED <<vars, payload, mistakes>>
       ELSE Lost(t)
-----------------------------------------------------------------------------
Dialog(t) ==
    \/ Index(t)
    \/ \E p \in Purposes : Open(t, p)
    \/ \E x \in Texts :
          SubmitForm(t, x) \/ SubmitLastForm(t, x) \/ SubmitCanvas(t, x)
    \/ SubmitFilter(t)
    \/ Back(t)

Elsewhere ==
    /\ \/ \E i \in Items : ComeDue(i) \/ Delete(i)
       \/ \E a \in Actions : DeleteAction(a)
       \/ \E w \in Workers : Fetch(w) \/ Advance(w) \/ Crash(w)
    /\ UNCHANGED dialogVars

DialogNext == (\E t \in Tabs : Dialog(t)) \/ Elsewhere

DialogSpec == DialogInit /\ [][DialogNext]_allVars
-----------------------------------------------------------------------------
\* What the last page of a dialog does is what its first page showed: the same
\* action, now or later, a new item or the one that was edited, with what was
\* typed into this form.  Pages hand all this on through one place in the
\* session.  Canvas messages without the page of recipients are the exception.
DoesWhatItShows == \A m \in mistakes : m.asked.action \in Canvas
=============================================================================
