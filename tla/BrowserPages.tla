---------------------------- MODULE BrowserPages ----------------------------
(***************************************************************************)
(* The scripts of the pages (src/static/site/js/site.js and the scripts of  *)
(* the applications under static/): forms that are loaded into one modal    *)
(* and sent from it, with a query builder for formulas whose options are a  *)
(* global variable, check boxes that are toggled on the server, and the     *)
(* table of columns, whose rows are dragged.                                *)
(*                                                                          *)
(* Clicks, the server handling a request and the arrival of its answer are  *)
(* steps of their own: answers come in any order and may find that the      *)
(* modal was closed or the page loaded again.                               *)
(***************************************************************************)
EXTENDS Integers, SequencesExt

CONSTANTS Conditions, Formulas, Boxes, Columns,
          None,    \* no condition, no formula, nothing
          Slots    \* requests that the browser has in flight

VARIABLES
    hasty,     \* the user clicks before the last request is answered
    kind,      \* the page: of "conditions", of "boxes" or of "columns"
    formula,   \* server: per condition, None if it does not exist
    enabled,   \* server: the boxes that are on
    order,     \* server: the columns by position
    shown,     \* the modal is shown
    content,   \* what is in it
    rules,     \* qbuilder_options["rules"]
    ticked,    \* the boxes as they are shown
    list,      \* the columns as they are shown
    elem,      \* the element of the last click on a box, a global variable
    net        \* per slot a request, with its answer if there is one

server == <<formula, enabled, order>>
modal == <<shown, content, rules>>
vars == <<hasty, kind, server, modal, ticked, list, elem, net>>

Operations == {"create", "edit", "delete"}

\* The fields of a form are gone when body is FALSE; edited ones are touched.
Contents == [op : Operations, of : Conditions \cup {None},
             rules : Formulas \cup {None}, body : BOOLEAN, touched : BOOLEAN]

FormAsks == [what : {"load", "save"}, op : Operations \cup {"clone"},
             of : Conditions \cup {None}, rules : Formulas \cup {None}]
ToggleAsks == [what : {"toggle"}, box : Boxes, on : BOOLEAN]
MoveAsks == [what : {"move"}, from : Columns, to : Columns]

\* The page has left the requests that are not mine.
Sent == [mine : BOOLEAN, reply : {"none", "form", "done", "reload"}]

\* The server puts what it has read into rules, on and order.
Requests ==
    [ask : FormAsks \cup ToggleAsks \cup MoveAsks
         \cup [what : {"list"}, order : Bijection(DOMAIN order, Columns)],
     sent : Sent]

ASSUME BrowserAssumption ==
    /\ IsFiniteSet(Columns)
    /\ None \notin Conditions \cup Formulas \cup Boxes
    /\ None \notin Contents
    /\ None \notin [ask : FormAsks \cup ToggleAsks \cup MoveAsks, sent : Sent]

TypeOK ==
    /\ hasty \in BOOLEAN
    /\ kind \in {"conditions", "boxes", "columns"}
    /\ formula \in [Conditions -> Formulas \cup {None}]
    /\ enabled \subseteq Boxes /\ ticked \subseteq Boxes
    /\ order \in Bijection(DOMAIN order, Columns)
    /\ list \in Bijection(DOMAIN order, Columns)
    /\ shown \in BOOLEAN
    /\ content \in Contents \cup {None}
    /\ rules \in Formulas \cup {None}
    /\ elem \in Boxes \cup {None}
    /\ \A s \in Slots : net[s] \in Requests \cup {None}

Init ==
    /\ hasty \in BOOLEAN
    /\ kind \in {"conditions", "boxes", "columns"}
    /\ formula = [c \in Conditions |-> None]
    /\ enabled = {} /\ ticked = {}
    /\ order = SetToSeq(Columns) /\ list = order
    /\ shown = FALSE /\ content = None /\ rules = None
    /\ elem = None
    /\ net = [s \in Slots |-> None]
-----------------------------------------------------------------------------
(* Clicks.                                                                   *)

Mine(s) == net[s] # None /\ net[s].sent.mine

Ready == hasty \/ ~ \E s \in Slots : Mine(s)

Send(s, ask) ==
    /\ net[s] = None
    /\ net' = [net EXCEPT ![s] =
                  [ask |-> ask, sent |-> [mine |-> TRUE, reply |-> "none"]]]

\* loadForm: the fields of what is still in the modal go, and it is shown.
LoadForm(s, op, c) ==
    /\ kind = "conditions" /\ Ready /\ ~ shown
    /\ op = "create" <=> c = None
    /\ op # "create" => formula[c] # None
    /\ Send(s, [what |-> "load", op |-> op, of |-> c, rules |-> None])
    /\ shown' = TRUE
    /\ content' = IF content = None THEN None
                  ELSE [content EXCEPT !.body = FALSE]
    /\ UNCHANGED <<hasty, kind, server, rules, ticked, list, elem>>

\* The user builds a formula.
Build(f) ==
    /\ shown /\ content # None
    /\ content.body /\ content.op # "delete"
    /\ content' = [content EXCEPT !.rules = f, !.touched = TRUE]
    /\ UNCHANGED <<hasty, kind, server, shown, rules, ticked, list, elem, net>>

\* saveForm: a formula without rules is not valid, and the form stays.
SaveForm(s) ==
    /\ shown /\ content # None
    /\ content.body
    /\ content.op = "delete" \/ content.rules # None
    /\ Send(s, [what |-> "save", op |-> content.op, of |-> content.of,
                rules |-> content.rules])
    /\ content' = None
    /\ UNCHANGED <<hasty, kind, server, shown, rules, ticked, list, elem>>

\* conditionClone, without a form.
ConditionClone(s, c) ==
    /\ kind = "conditions" /\ Ready /\ ~ shown
    /\ formula[c] # None
    /\ Send(s, [what |-> "save", op |-> "clone", of |-> c, rules |-> None])
    /\ UNCHANGED <<hasty, kind, server, modal, ticked, list, elem>>

\* Mutant of RulesForgotten: the rules of this form stay for the next one.
RulesKept == UNCHANGED rules
RulesForgotten == rules' = None

\* The modal is closed: hide.bs.modal.
Hide ==
    /\ shown /\ Ready
    /\ shown' = FALSE /\ content' = None
    /\ RulesForgotten
    /\ UNCHANGED <<hasty, kind, server, ticked, list, elem, net>>

\* toggleCheckBox: the browser shows the change at once.
ToggleCheckBox(s, b) ==
    /\ kind = "boxes" /\ Ready
    /\ Send(s, [what |-> "toggle", box |-> b, on |-> FALSE])
    /\ elem' = b
    /\ ticked' = IF b \in ticked THEN ticked \ {b} ELSE ticked \cup {b}
    /\ UNCHANGED <<hasty, kind, server, modal, list>>

\* A row is dragged to another place: what is at place i after it was at j.
Dragged(q, i, j) == InsertAt(RemoveAt(q, i), j, q[i])

\* What RowReorder tells of a drag: each place that has another column now, in
\* the order of the places.
Details(old, new) ==
    [i \in {k \in DOMAIN old : old[k] # new[k]} |->
        [oldData |-> new[i], newData |-> old[i], newPosition |-> i,
         oldPosition |-> CHOOSE k \in DOMAIN old : old[k] = new[i]]]

First(d) == d[Min(DOMAIN d)]

\* Mutant of RowReordered: the first of the details, whatever they are.
RowReorderedFirst(d) == First(d)

\* row_reordered: the detail that is sent, with the names of two columns.
RowReordered(d) ==
    IF First(d).oldPosition - First(d).newPosition = 1 THEN d[Max(DOMAIN d)]
                                                       ELSE First(d)

DragRow(s, i, j) ==
    /\ kind = "columns" /\ Ready /\ i # j
    /\ list' = Dragged(list, i, j)
    /\ LET d == RowReordered(Details(list, list')) IN
       Send(s, [what |-> "move", from |-> d.oldData, to |-> d.newData])
    /\ UNCHANGED <<hasty, kind, server, modal, ticked, elem>>
-----------------------------------------------------------------------------
(* The server.                                                               *)

Unanswered(s, what) == net[s] # None /\ net[s].ask.what = what
                          /\ net[s].sent.reply = "none"

Answer(s, reply, ask) ==
    net' = [net EXCEPT ![s] = [ask |-> ask, sent |-> [@.sent EXCEPT !.reply = reply]]]

\* The form of a condition, or of a new one, or of its deletion.
ServeForm(s) ==
    /\ Unanswered(s, "load")
    /\ LET a == net[s].ask IN
       IF a.of # None /\ formula[a.of] = None
       THEN Answer(s, "reload", a)
       ELSE Answer(s, "form",
                   [a EXCEPT !.rules = IF a.op = "edit" THEN formula[a.of]
                                       ELSE None])
    /\ UNCHANGED <<hasty, kind, server, modal, ticked, list, elem>>

\* A form is saved, or not and shown again with its errors.
ServeSave(s) ==
    /\ Unanswered(s, "save")
    /\ LET a == net[s].ask IN
       \/ /\ a.op \in {"create", "edit"}
          /\ a.of # None => formula[a.of] # None
          /\ Answer(s, "form", a)
          /\ UNCHANGED formula
       \/ /\ \/ /\ a.op \in {"create", "clone"}
                /\ a.op = "clone" => formula[a.of] # None
                /\ \E c \in Conditions :
                      /\ formula[c] = None
                      /\ formula' = [formula EXCEPT ![c] =
                            IF a.op = "clone" THEN formula[a.of] ELSE a.rules]
             \/ /\ a.op \in {"edit", "delete"} /\ formula[a.of] # None
                /\ formula' = [formula EXCEPT ![a.of] =
                                  IF a.op = "edit" THEN a.rules ELSE None]
             \/ /\ a.of # None /\ formula[a.of] = None
                /\ UNCHANGED formula
          /\ Answer(s, "reload", a)
    /\ UNCHANGED <<hasty, kind, enabled, order, modal, ticked, list, elem>>

\* plugin_toggle: a plugin that is not verified stays as it is.
ServeToggle(s) ==
    /\ Unanswered(s, "toggle")
    /\ LET b == net[s].ask.box IN
       /\ \/ enabled' = IF b \in enabled THEN enabled \ {b} ELSE enabled \cup {b}
          \/ UNCHANGED enabled
       /\ Answer(s, "done", [net[s].ask EXCEPT !.on = b \in enabled'])
    /\ UNCHANGED <<hasty, kind, formula, order, modal, ticked, list, elem>>

\* Mutant of Moved: the column is at both places.
MovedTwice(a, b) == [order EXCEPT ![CHOOSE i \in DOMAIN order : order[i] = b] = a]

\* column_move: column a goes where column b is.
Moved(a, b) == Dragged(order, CHOOSE i \in DOMAIN order : order[i] = a,
                              CHOOSE i \in DOMAIN order : order[i] = b)

ServeMove(s) ==
    /\ Unanswered(s, "move")
    /\ order' = Moved(net[s].ask.from, net[s].ask.to)
    /\ Answer(s, "done", net[s].ask)
    /\ UNCHANGED <<hasty, kind, formula, enabled, modal, ticked, list, elem>>

ServeList(s) ==
    /\ Unanswered(s, "list")
    /\ Answer(s, "done", [net[s].ask EXCEPT !.order = order])
    /\ UNCHANGED <<hasty, kind, server, modal, ticked, list, elem>>

\* No answer, or an error, before the server has done anything or after it.
Fail(s) ==
    /\ Mine(s) /\ net[s].sent.reply # "reload" /\ net[s].ask.what # "list"
    /\ Answer(s, "reload", net[s].ask)
    /\ UNCHANGED <<hasty, kind, server, modal, ticked, list, elem>>
-----------------------------------------------------------------------------
(* Answers arrive.                                                           *)

Free(s) == net' = [net EXCEPT ![s] = None]

\* Mutant of Reload: the error handler is missing, nothing happens.
ReloadForgotten(s) == Free(s) /\ UNCHANGED <<modal, ticked, list, elem>>

\* The page is loaded again.  What the server is at goes on without it.
Reload(s) ==
    /\ shown' = FALSE /\ content' = None /\ rules' = None
    /\ ticked' = enabled /\ list' = order /\ elem' = None
    /\ net' = [r \in Slots |->
                  IF r = s \/ net[r] = None THEN None
                  ELSE [net[r] EXCEPT !.sent.mine = FALSE]]

\* A form is put into the modal, shown or not.  set_qbuilder takes the rules of
\* the form if it has some, otherwise those that are in the options.
ShowForm(s) ==
    LET a == net[s].ask
        r == IF a.rules # None THEN a.rules ELSE rules IN
    /\ IF a.op = "delete"
       THEN UNCHANGED rules
       ELSE rules' = r
    /\ content' = [op |-> a.op, of |-> a.of, body |-> TRUE,
                   rules |-> IF a.op = "delete" THEN None ELSE r,
                   touched |-> a.what = "save"]
    /\ Free(s)
    /\ UNCHANGED <<shown, ticked, list, elem>>

\* Mutant of Tick: the answer that a box is off is ignored.
TickOn(b, on) == IF on THEN ticked \cup {b} ELSE ticked

Tick(b, on) == IF on THEN ticked \cup {b} ELSE ticked \ {b}

\* The element is the one of the last click, not of this request.
ShowToggle(s) ==
    /\ ticked' = Tick(elem, net[s].ask.on)
    /\ Free(s)
    /\ UNCHANGED <<modal, list, elem>>

\* Success of a move: the table of columns is read again.
ReadList(s) ==
    /\ net' = [net EXCEPT ![s] =
                  [ask |-> [what |-> "list", order |-> list],
                   sent |-> [mine |-> TRUE, reply |-> "none"]]]
    /\ UNCHANGED <<modal, ticked, list, elem>>

ShowList(s) ==
    /\ list' = net[s].ask.order
    /\ Free(s)
    /\ UNCHANGED <<modal, ticked, elem>>

Arrive(s) ==
    /\ net[s] # None /\ net[s].sent.reply # "none"
    /\ IF ~ net[s].sent.mine
       THEN Free(s) /\ UNCHANGED <<modal, ticked, list, elem>>
       ELSE \/ net[s].sent.reply = "reload" /\ Reload(s)
            \/ net[s].sent.reply = "form" /\ ShowForm(s)
            \/ net[s].sent.reply = "done" /\
                  \/ net[s].ask.what = "toggle" /\ ShowToggle(s)
                  \/ net[s].ask.what = "move" /\ ReadList(s)
                  \/ net[s].ask.what = "list" /\ ShowList(s)
    /\ UNCHANGED <<hasty, kind, server>>
-----------------------------------------------------------------------------
Click(s) ==
    \/ \E op \in Operations, c \in Conditions \cup {None} : LoadForm(s, op, c)
    \/ SaveForm(s)
    \/ \E c \in Conditions : ConditionClone(s, c)
    \/ \E b \in Boxes : ToggleCheckBox(s, b)
    \/ \E i, j \in DOMAIN list : DragRow(s, i, j)

Serve(s) == \/ ServeForm(s) \/ ServeSave(s) \/ ServeToggle(s) \/ ServeMove(s)
            \/ ServeList(s)

Next ==
    \/ Hide
    \/ \E f \in Formulas : Build(f)
    \/ \E s \in Slots : Click(s) \/ Serve(s) \/ Fail(s) \/ Arrive(s)

Spec == Init /\ [][Next]_vars

\* Servers answer, or the browser gives up, and answers arrive.
FairSpec == Spec /\ \A s \in Slots :
                        WF_vars(Serve(s) \/ Fail(s)) /\ WF_vars(Arrive(s))
-----------------------------------------------------------------------------
\* The query builder shows the formula of the condition that the form is about,
\* and none for a new one, as long as the user has not touched it.  Its options
\* are one variable for all forms of a page.
RulesAreOfTheForm ==
    ~ hasty /\ content # None =>
        \/ content.touched \/ ~ content.body \/ content.op = "delete"
        \/ content.rules = IF content.op = "edit" THEN formula[content.of]
                           ELSE None

\* Boxes show what the server has, also if it has not done what was clicked.
BoxesAreTrue == ~ hasty /\ kind = "boxes" /\ Ready => ticked = enabled

\* Once the server has moved the column, its order is the one that the user has
\* made by dragging: the two names that are sent stand for the whole drag.
DragIsKept ==
    ~ hasty /\ list # order =>
        \E s \in Slots : Mine(s) /\ net[s].ask.what = "move"
                            /\ net[s].sent.reply \in {"none", "reload"}

\* A modal that is empty in front of the page waits for an answer that will put
\* a form into it or load the page again, also if other forms were closed or
\* loaded meanwhile (site.js:56-63, 90-110).
EmptyModalWaits ==
    shown /\ content = None =>
        \E s \in Slots : Mine(s) /\ net[s].ask.what \in {"load", "save"}

\* The modal is not left empty in front of the page, however the user hurries,
\* whatever fails, and in whatever order answers arrive.
BlankModalEnds == shown /\ content = None ~> ~ shown \/ content # None
=============================================================================
