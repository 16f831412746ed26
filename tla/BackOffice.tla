------------------------------ MODULE BackOffice ------------------------------
(* Accounts and two more stores that the back office and the customers write to by
   themselves: the rows that affirmations and staff change, and a crop calendar; what
   the API makes of a schema that is behind its code; and the requests that only read. *)
EXTENDS Accounts

CONSTANTS
  Zones, Customers, Owner, Affs, Requester, Changes, Patches, Initial,   \* Affirmations
  Replacers, MaxPeriods, Unborn,                                        \* KcCalendar
  Processes, OldTables, MadeWith(_), HeldBack, MaxAsking, MaxMisses, MaxRestarts, \* SchemaCompat
  Others, Kinds, TheGrant, Caller, Logins, MaxEvents, All, Nowhere      \* Reads

VARIABLES
  rows, status, pcA, jobA, writes, racedA,
  number, assigned, periods, pcK, jobK, loaded, old, dropped, added, wrote, racedK,
  schema, _table_cache, req, due, answer, asking, misses, restarts,
  db, pcR, asked, todoR, grantR, scope, shown, aborted, lost, could, must, moved, changes, faults

A == INSTANCE Affirmations WITH
       Accounts <- Customers, Change <- Changes, pc <- pcA, job <- jobA, raced <- racedA
K == INSTANCE KcCalendar WITH
       Requests <- Replacers, pc <- pcK, job <- jobK, raced <- racedK
P == INSTANCE SchemaCompat WITH
       Old <- OldTables, ColumnsOf <- MadeWith, Held <- HeldBack, MaxRequests <- MaxAsking,
       MaxFaults <- MaxMisses, requests <- asking, faults <- misses
R == INSTANCE Reads WITH pc <- pcR, todo <- todoR, grant <- grantR

ASSUME RowsAssumption    == A!RowsAssumption
ASSUME PayloadsAssumption == A!PayloadsAssumption
ASSUME PeriodsAssumption == K!PeriodsAssumption
ASSUME UnbornAssumption  == K!UnbornAssumption
ASSUME TablesAssumption  == P!TablesAssumption

\* What is approved is what the row then holds, unless another request raced.
ApprovedIsApplied == A!ApprovedIsApplied
\* Who replaced the stages undisturbed left exactly its own, and their count.
ReplacedUnlessRaced == K!ReplacedUnlessRaced
\* No migration that is held back makes a request fail, or a body lose what it carries.
DegradesSafely == P!DegradesSafely
\* Nor does anything that others commit make a read fail, but for a deleted account.
FailsForCause == R!FailsForCause /\ DegradesSafely

=============================================================================
