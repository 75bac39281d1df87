------------------------------ MODULE Templates ------------------------------
(***************************************************************************)
(* Document templates of one tenant (document-templates.service.ts), the   *)
(* page that lists and creates them (DocumentTemplatesList.tsx) and the    *)
(* one that fills one in (TemplateRenderer.tsx).  A body is a sequence of  *)
(* pieces: text, and placeholders of three forms.  A text or a value is    *)
(* the set of what it contains; the clients write both freely.             *)
(***************************************************************************)
EXTENDS Integers, FiniteSets, Sequences, SequencesExt

CONSTANTS Templates,     \* ids that may be created (bound)
          Names,         \* names of variables
          TemplateRows,  \* what clients write: a body, and the variables it declares
          Values         \* values that users type

\* What a text or a value may contain: words, HTML, the elements and attributes
\* that the server's expressions match, and odd markup, which is near to those but
\* which they do not match whole.  A placeholder looks like one of a body.
Contents == {"words", "markup", "script", "odd", "placeholder"}

\* {{x}}, {{{x}}}, and one with three braces on one side and two on the other.
Forms == {"safe", "raw", "lopsided"}

\* The text of a placeholder is not used, nor the name of a text.
Pieces == [form : Forms \union {"text"}, name : Names, text : SUBSET Contents]

ASSUME TemplateAssumption ==
  /\ TemplateRows \subseteq [body : Seq(Pieces), declared : SUBSET Names]
  /\ Values \subseteq SUBSET Contents

VARIABLES
  template,  \* template[x], a row, or NoTemplate
  lookup,    \* an update or deletion by another client, after its look at the row
  shelf,     \* the list page; stale is history: others changed templates, or a call failed
  desk       \* the page that fills in a template; stale as before

templateVars == <<template, lookup, shelf, desk>>

NoTemplate == [body |-> <<>>, declared |-> Names, absent |-> TRUE]
NoLookup == [pc |-> "idle"]
Away == [pc |-> "away"]
Present == {x \in Templates : template[x] # NoTemplate}

TemplateInit ==
  /\ template = [x \in Templates |-> NoTemplate]
  /\ lookup = NoLookup
  /\ shelf = Away
  /\ desk = Away

-----------------------------------------------------------------------------
(* Rendering *)

\* A piece of the output: what it may show, and whether it is escaped. The text
\* of the body is copied as its author wrote it.
Copied(text) == [shows |-> text, escaped |-> FALSE]
Nothing == [shows |-> {}, escaped |-> TRUE]

\* Each expression passes over the value once and takes out what it matches. Odd
\* markup stays, and what is taken out of its middle can leave a match behind.
SanitizeRawHtml(value) ==
  IF "odd" \in value THEN value \union {"script"} ELSE value \ {"script"}

\* Mutant of Inserted: only the even double braces are escaped.
InsertedRaw(form, value) ==
  IF form = "safe" THEN [shows |-> value, escaped |-> TRUE]
  ELSE [shows |-> SanitizeRawHtml(value), escaped |-> FALSE]

\* A raw value is sanitized; any other is escaped. With uneven braces the inner
\* two are the placeholder, and the odd one stays.
Inserted(form, value) ==
  IF form = "raw" THEN [shows |-> SanitizeRawHtml(value), escaped |-> FALSE]
  ELSE [shows |-> value, escaped |-> TRUE]

\* One pass: what a value brings along is not looked at again. A variable
\* without a value becomes empty.
RenderTemplate(body, values) ==
  [i \in DOMAIN body |->
     IF body[i].form = "text" THEN Copied(body[i].text)
     ELSE IF body[i].name \notin DOMAIN values THEN Nothing
     ELSE Inserted(body[i].form, values[body[i].name])]

\* The variables that the page offers: those of the body, and those declared.
DerivedVars(row) ==
  {row.body[i].name : i \in {j \in DOMAIN row.body : row.body[j].form # "text"}} \union row.declared

-----------------------------------------------------------------------------
(* Other clients: find the row of the tenant, then change it by its id.     *)

FindTemplate(x, row) ==
  /\ lookup = NoLookup /\ x \in Present
  /\ lookup' = [pc |-> "found", of |-> x, row |-> row]
  /\ UNCHANGED <<template, shelf, desk>>

\* An update of a row that is gone by now fails, and so does its deletion.
ChangeTemplate ==
  /\ lookup # NoLookup
  /\ template' = IF lookup.of \in Present THEN [template EXCEPT ![lookup.of] = lookup.row] ELSE template
  /\ lookup' = NoLookup
  /\ desk' = IF desk # Away /\ desk.of = lookup.of THEN [desk EXCEPT !.stale = TRUE] ELSE desk
  /\ shelf' = IF shelf = Away THEN shelf ELSE [shelf EXCEPT !.stale = TRUE]

OtherClients ==
  \/ \E x \in Templates, row \in TemplateRows \union {NoTemplate} : FindTemplate(x, row)
  \/ ChangeTemplate

-----------------------------------------------------------------------------
(* The list page. Its form appears with the list.                           *)

OpenShelf ==
  /\ \/ \E list \in SetToSeqs(Present) : shelf' = [pc |-> "open", list |-> list, stale |-> FALSE]
     \/ shelf' = [pc |-> "open", list |-> <<>>, stale |-> TRUE]
  /\ desk' = Away
  /\ UNCHANGED <<template, lookup>>

\* The button is disabled while a creation is under way. The server draws the
\* id; its answer may be lost.
HandleCreate(x, row) ==
  /\ shelf.pc = "open" /\ x \notin Present \union ToSet(shelf.list)
  /\ template' = [template EXCEPT ![x] = row]
  /\ shelf' \in {[pc |-> "creating", new |-> x, list |-> shelf.list, stale |-> shelf.stale],
                 [shelf EXCEPT !.stale = TRUE]}
  /\ UNCHANGED <<lookup, desk>>

\* Mutant of Prepended: the list is replaced by the new one.
Replaced(list, x) == <<x>>

Prepended(list, x) == <<x>> \o list

\* The list shows it first.  The router then goes to its page, as OpenDesk does;
\* until that is there the list stays.
Created ==
  /\ shelf.pc = "creating"
  /\ shelf' = [pc |-> "open", list |-> Prepended(shelf.list, shelf.new), stale |-> shelf.stale]
  /\ UNCHANGED <<template, lookup, desk>>

Shelf == OpenShelf \/ Created \/ \E x \in Templates, row \in TemplateRows : HandleCreate(x, row)

-----------------------------------------------------------------------------
(* The page of one template *)

Unfilled == [n \in {} |-> {}]

OpenDesk(x) ==
  /\ shelf.pc = "open" /\ x \in ToSet(shelf.list) \intersect Present
  /\ desk' = [pc |-> "open", of |-> x, row |-> template[x], stale |-> FALSE, values |-> Unfilled,
              sent |-> Unfilled, preview |-> [body |-> <<>>, values |-> Unfilled]]
  /\ shelf' = Away
  /\ UNCHANGED <<template, lookup>>

\* A field for each variable; it stays usable while a rendering is under way.
TypeValue(n, value) ==
  /\ desk # Away /\ n \in DerivedVars(desk.row)
  /\ desk' = [desk EXCEPT !.values = [m \in DOMAIN @ \union {n} |-> IF m = n THEN value ELSE @[m]]]
  /\ UNCHANGED <<template, lookup, shelf>>

\* Without variables there is no form.
HandleRender ==
  /\ desk.pc = "open" /\ DerivedVars(desk.row) # {}
  /\ desk' = [desk EXCEPT !.pc = "rendering", !.sent = desk.values]
  /\ UNCHANGED <<template, lookup, shelf>>

\* The server renders the body that it has now. After a failure the preview
\* before it stays.
Rendered ==
  /\ desk.pc = "rendering"
  /\ \/ desk' = [desk EXCEPT !.pc = "open"]
     \/ /\ desk.of \in Present
        /\ desk' = [desk EXCEPT !.pc = "open",
             !.preview = [body |-> template[desk.of].body, values |-> desk.sent]]
  /\ UNCHANGED <<template, lookup, shelf>>

Desk ==
  \/ HandleRender \/ Rendered
  \/ \E x \in Templates : OpenDesk(x)
  \/ \E n \in Names, value \in Values : TypeValue(n, value)

TemplateNext == OtherClients \/ Shelf \/ Desk

TemplateSpec == TemplateInit /\ [][TemplateNext]_templateVars

-----------------------------------------------------------------------------
(* Properties *)

TemplateTypeOK ==
  /\ template \in [Templates -> TemplateRows \union {NoTemplate}]
  /\ lookup.pc \in {"idle", "found"}
  /\ shelf.pc \in {"away", "open", "creating"}
  /\ desk.pc \in {"away", "open", "rendering"}

\* The list page lists each template once, although it adds its own creations
\* to a list that it fetched before, unless others changed templates since or
\* an answer was lost.
ShelfTrue ==
  shelf.pc = "open" /\ ~shelf.stale =>
    ToSet(shelf.list) = Present /\ Cardinality(Present) = Len(shelf.list)

\* The preview is of the source that the page shows under it, although the server
\* renders the body that it has by then: each of its placeholders, of whatever
\* form, had a field, so nothing is empty that the user could not fill in, unless
\* the template was changed under the page.  And a value stands unescaped only
\* where the author asked for it, without the elements that the server matches
\* unless it has odd markup, for which the code vouches as little as for the
\* author's own text.
PreviewTrue ==
  desk # Away =>
    LET body == desk.preview.body
        values == desk.preview.values
        html == RenderTemplate(body, values)
    IN /\ desk.stale \/ body \in {<<>>, desk.row.body}
       /\ \A i \in {j \in DOMAIN body : body[j].form # "text"} :
            /\ desk.stale \/ body[i].name \in DerivedVars(desk.row)
            /\ ~html[i].escaped =>
                 /\ body[i].form = "raw"
                 /\ "script" \in html[i].shows => "odd" \in values[body[i].name]

\* What the pages of the templates show.
TemplatesTrue == ShelfTrue /\ PreviewTrue
=============================================================================
