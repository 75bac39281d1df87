\* Each part of the office alone: the smallest sets in which two of a kind meet.
\* Parts with a bound stop there, so a deadlock is no error.
SPECIFICATION Spec
CHECK_DEADLOCK FALSE
CONSTANTS
  Tenants = {t1, t2}
  Words = {"a", "b"}
  Resources = {"x", "y"}
  TypeOf <- MCTypeOf
  Documents <- MCDocuments
  Asked <- MCAsked
  DefaultLimit = 2
  MaxLimit = 2
  Companies = {t1, t2}
  Users = {u1}
  Kinds = {k1, k2}
  Days = {1, 2}
  Things = {x1, x2}
  Nobody = nobody
  Limits = {0, 1}
  MaxEvents = 2
  Tasks = {x1, x2}
  Statuses = {todo, doing}
  First = todo
  PageCalls = {c1, c2}
  MaxElsewhere = 1
  Firms = {t1, t2}
  Home = t1
  Stages = {todo, doing}
  ListCalls = {c1, c2}
  MaxProjects = 2
  MaxEntries = 2
  Templates = {d1, d2}
  Names = {"m", "n"}
  TemplateRows <- MCTemplateRows
  Values <- MCValues
  Employees = {e1, e2}
  Periods = {p1}
  Calculations = {c1, c2}
  Salaries <- MCSalaries
  Cap = 1
  NoPeriod = none
  Departments = {d1, d2, d3}
  NoOne = none
  Workers = {e1}
  Instants = {0, 1, 2, 18001}
  Codes = {x1, x2}
  Defaults = {x1}
  Dates = {1, 2}
  Amounts <- MCAmounts
  Rates = {0, 5}
  MaxLines = 4
  WebCalls = {w1, w2}
  MaxFactors = 2
  Scopes = {t1}
  Outside = nobody
  Viewer = t1
  Filters = {k1, k2}
  All = all
  Keys = {"user", "token", "raw", "name"}
  SENSITIVE_KEYS = {"token"}
  Bodies <- MCBodies
  Writes = {w1}
  Loads = {l1, l2}
  Take = 1
  MaxRows = 2
  Window = 2
  Allowed = 2
  Reports = {r1, r2}
  Hour = 2
  ImapClients = {c1, c2, c3}
  MaxNow = 6
  Letters = {x1}
  BoxCalls = {c1, c2}
  MaxInbox = 2
  Orgs = {t1, t2, t3}
  NoOrg = none
  FirstOrg = t1
  Logout = nobody
  BarCalls = {c1, c2, c3}
INVARIANTS TypeOK AnswersTrue PagesTrue PaidOnce WorkplaceTrue BooksAdd SignInAgrees AuditTrail TimersTrue
