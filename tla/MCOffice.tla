------------------------------ MODULE MCOffice ------------------------------
(***************************************************************************)
(* The parts of the back office, the pages and the timers, which share no  *)
(* variable and call nothing of one another.  A behaviour has one of them  *)
(* at work and the others in their initial state: the states add up        *)
(* instead of multiplying.  part says which; it is chosen at the start.    *)
(***************************************************************************)
EXTENDS Search, Analytics, ProjectPage, ProjectsList, Templates, Payroll, Workplace, Ledger, SignIn, Audit, Timers, Inbox, Topbar, TLC

VARIABLE part

MCTypeOf == "x" :> "lead" @@ "y" :> "file"
MCDocuments ==
  {[title |-> {"a"}, fields |-> {}, content |-> {"b"}],
   [title |-> {"b"}, fields |-> {"a"}, content |-> {}]}
MCTemplateRows ==
  LET Piece(form, name) == [form |-> form, name |-> name, text |-> {}]
      Text(text) == [form |-> "text", name |-> "m", text |-> text]
  IN {[body |-> <<Piece("raw", "m"), Text({"words", "markup", "script"})>>, declared |-> {}],
      [body |-> <<Piece("lopsided", "m"), Piece("safe", "n")>>, declared |-> {"m"}]}
MCValues == {{"words", "markup", "script"}, {"odd", "placeholder"}}
MCBodies == {{<<"user", "token", "raw">>, <<"token", "raw">>, <<"name">>}}
MCAsked == {-1, 0, 1}
MCAmounts == {-4, 0, 5, 40}
MCSalaries == {-6, 0}

officeVars == <<searchVars, analyticsVars, projectVars, listVars, templateVars, payrollVars,
                workplaceVars, ledgerVars, signInVars, auditVars, timersVars, inboxVars, barVars>>

Init ==
  /\ SearchInit /\ AnalyticsInit /\ ProjectInit /\ ListInit /\ TemplateInit /\ PayrollInit
  /\ WorkplaceInit /\ LedgerInit /\ SignInInit /\ AuditInit /\ TimersInit
  /\ InboxInit /\ BarInit
  /\ part \in {"search", "analytics", "project", "projects", "templates", "payroll", "departments",
               "attendance", "seeds", "journal", "bills", "sign-in", "audit", "guard", "reports", "mailbox",
               "inbox", "bar"}

\* The first six and the last seven modules at rest.
FrontAtRest == UNCHANGED <<searchVars, analyticsVars, projectVars, listVars, templateVars, payrollVars>>
BackAtRest ==
  UNCHANGED <<workplaceVars, ledgerVars, signInVars, auditVars, timersVars, inboxVars, barVars>>

FrontWorks ==
  \/ /\ part = "search" /\ SearchNext
     /\ UNCHANGED <<analyticsVars, projectVars, listVars, templateVars, payrollVars>>
  \/ /\ part = "analytics" /\ AnalyticsNext
     /\ UNCHANGED <<searchVars, projectVars, listVars, templateVars, payrollVars>>
  \/ /\ part = "project" /\ ProjectNext
     /\ UNCHANGED <<searchVars, analyticsVars, listVars, templateVars, payrollVars>>
  \/ /\ part = "projects" /\ ListNext
     /\ UNCHANGED <<searchVars, analyticsVars, projectVars, templateVars, payrollVars>>
  \/ /\ part = "templates" /\ TemplateNext
     /\ UNCHANGED <<searchVars, analyticsVars, projectVars, listVars, payrollVars>>
  \/ /\ part = "payroll" /\ PayrollNext
     /\ UNCHANGED <<searchVars, analyticsVars, projectVars, listVars, templateVars>>

BackWorks ==
  \/ /\ \/ part = "departments" /\ DepartmentRequests
        \/ part = "attendance" /\ (AttendanceRequests \/ Tick)
     /\ UNCHANGED <<ledgerVars, signInVars, auditVars, timersVars, inboxVars, barVars>>
  \/ /\ \/ part = "seeds" /\ Seeding
        \/ part = "journal" /\ Posting
        \/ part = "bills" /\ Billing
     /\ UNCHANGED <<workplaceVars, signInVars, auditVars, timersVars, inboxVars, barVars>>
  \/ /\ part = "sign-in" /\ SignInNext
     /\ UNCHANGED <<workplaceVars, ledgerVars, auditVars, timersVars, inboxVars, barVars>>
  \/ /\ part = "audit" /\ AuditNext
     /\ UNCHANGED <<workplaceVars, ledgerVars, signInVars, timersVars, inboxVars, barVars>>
  \/ /\ \/ part = "guard" /\ Guard
        \/ part = "reports" /\ Reporting
        \/ part = "mailbox" /\ Mailbox
        \/ part \in {"guard", "reports"} /\ Passing
     /\ UNCHANGED <<workplaceVars, ledgerVars, signInVars, auditVars, inboxVars, barVars>>
  \/ /\ part = "inbox" /\ InboxNext
     /\ UNCHANGED <<workplaceVars, ledgerVars, signInVars, auditVars, timersVars, barVars>>
  \/ /\ part = "bar" /\ BarNext
     /\ UNCHANGED <<workplaceVars, ledgerVars, signInVars, auditVars, timersVars, inboxVars>>

Next ==
  /\ \/ FrontWorks /\ BackAtRest
     \/ BackWorks /\ FrontAtRest
  /\ UNCHANGED part

Spec == Init /\ [][Next]_<<officeVars, part>>

\* A part at rest stays in its initial state, so each property is looked at in
\* the behaviours of its own part only.
In(parts, P) == part \in parts => P

\* The variables of each module keep their shape.
TypeOK ==
  /\ In({"search"}, SearchTypeOK) /\ In({"analytics"}, AnalyticsTypeOK)
  /\ In({"project"}, ProjectTypeOK) /\ In({"projects"}, ListTypeOK)
  /\ In({"templates"}, TemplateTypeOK)
  /\ In({"payroll"}, PayrollTypeOK) /\ In({"departments", "attendance"}, WorkplaceTypeOK)
  /\ In({"seeds", "journal", "bills"}, LedgerTypeOK)
  /\ In({"sign-in"}, SignInTypeOK) /\ In({"audit"}, AuditTypeOK)
  /\ In({"guard", "reports", "mailbox"}, TimersTypeOK)
  /\ In({"inbox"}, InboxTypeOK) /\ In({"bar"}, BarTypeOK)

\* What the services answer that read whole tables: pages of the search index,
\* statistics of events, and the folders of an inbox.
AnswersTrue ==
  /\ In({"search"}, SearchAnswers)
  /\ In({"analytics"}, AnalyticsAnswers)
  /\ In({"inbox"}, InboxTrue)

\* What the pages of projects and templates and the bar above them show,
\* against what is stored and under way.
PagesTrue ==
  /\ In({"project"}, SerialPage)
  /\ In({"projects"}, ListKept)
  /\ In({"templates"}, TemplatesTrue)
  /\ In({"bar"}, BarAgrees)

\* The department tree and the hours of attendance.
WorkplaceTrue ==
  /\ In({"departments"}, TreeComplete)
  /\ In({"attendance"}, HoursTrue)

\* The books: seeds, the trial balance, bills and invoices.
BooksAdd ==
  /\ In({"seeds"}, SeedsAdd)
  /\ In({"journal"}, TrialBalanceAdds)
  /\ In({"bills"}, FiguresAdd)

\* What one process keeps by the clock: its guard, reports and mail client.
TimersTrue ==
  /\ In({"guard"}, TwiceAtMost)
  /\ In({"reports"}, HourApart)
  /\ In({"mailbox"}, NeverAlone)
=============================================================================
