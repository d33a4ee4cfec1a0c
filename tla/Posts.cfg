\* Two requests: with one key and body they are an attempt and its retry,
\* overlapping or not, in one tenant or two; SES with SMTP as last resort;
\* a window of one request, so that the other may be refused or wait for the next.
SPECIFICATION Spec
CONSTANTS
  Request = {r1, r2}
  Key = {k1}
  Auth = {alice}
  Tenant = {t1, t2}
  Email = {e1}
  Title = {x1, x2}
  Times = 1
  Chosen = "ses"
  Configured = {"ses", "smtp"}
INVARIANTS TypeOK GaugeTrue ToldTrue SecondTodoExcused
PROPERTIES ImplementsAccounts EveryRequestAnswered
CHECK_DEADLOCK FALSE
