----------------------------- MODULE Monitoring -----------------------------
(***************************************************************************)
(* The cron job of src/indexer that warns of transfers pending for too     *)
(* long (services/monitoringService).  It runs in the indexers' process and*)
(* reads what they write; of the database it may assume what               *)
(* TransferLifecycle promises, and no more, so that abstract specification *)
(* is its environment here.                                                *)
(*                                                                         *)
(* The job starts a check and does not await it: checks overlap with each  *)
(* other and with the indexers, and the promise of one that throws is      *)
(* rejected with nobody to catch it, which ends the process (Node 18).  A  *)
(* check works on what its one query returned: the pending transfers and   *)
(* their deposit rows.                                                     *)
(***************************************************************************)

CONSTANTS
  Key,    \* the transfers
  Check   \* bound: at most this many checks at a time

VARIABLES
  status,    \* Transfer: "absent" or the row's status
  known,     \* Transfer: the keys whose deposit details are filled in
  deposits,  \* Deposit: the keys that have a row
  overdue,   \* the keys whose deposit is older than WARNING_TIME_MINUTES
  up,        \* the process runs
  left,      \* each check: the transfers it has read and not looked at
  bare,      \* each check: those of them that had no deposit row when read
  warned,    \* history: the keys a warning was sent for
  pended     \* history: the keys that have been pending

database == <<status, known, deposits>>
check == <<left, bare>>
vars == <<database, overdue, up, check, warned, pended>>

\* The rows a check does not read do not change here.
Indexers == INSTANCE TransferLifecycle WITH fees <- {}, settled <- {}, tried <- {}

Pending == {k \in Key : status[k] = "pending"}

\* Every variable holds a value of its kind; when the process is down no check
\* is in progress.
TypeOK ==
  /\ status \in [Key -> {"absent", "pending", "failed", "executed"}]
  /\ known \subseteq Key /\ deposits \subseteq Key /\ overdue \subseteq Key
  /\ warned \subseteq Key /\ pended \subseteq Key
  /\ up \in BOOLEAN
  /\ left \in [Check -> SUBSET Key]
  /\ bare \in [Check -> SUBSET Key]
  /\ ~up => \A c \in Check : left[c] = {}

Init ==
  /\ Indexers!Init
  /\ overdue = {}
  /\ up = FALSE
  /\ left = [c \in Check |-> {}]
  /\ bare = [c \in Check |-> {}]
  /\ warned = {}
  /\ pended = {}

-----------------------------------------------------------------------------
(* The rest of the process, and time. *)

\* init has created the job and started it, and the listeners after it.
Start ==
  /\ ~up
  /\ up' = TRUE
  /\ UNCHANGED <<database, overdue, check, warned, pended>>

\* A listener writes to the database.
Index(k) ==
  /\ up
  /\ \/ Indexers!Deposited(k) \/ Indexers!Failed(k) \/ Indexers!Executed(k)
     \/ Indexers!FileDeposit(k)
  /\ pended' = pended \union {j \in Key : status'[j] = "pending"}
  /\ UNCHANGED <<overdue, up, check, warned>>

\* A deposit's timestamp is that of its block, and the row's is never changed.
Age(k) ==
  /\ k \in deposits \ overdue
  /\ overdue' = overdue \union {k}
  /\ UNCHANGED <<database, up, check, warned, pended>>

-----------------------------------------------------------------------------
(* checkTransferStatus. *)

\* A mutation: the check asks for all transfers.
FireForAll(c) ==
  /\ up
  /\ left[c] = {}
  /\ left' = [left EXCEPT ![c] = {k \in Key : status[k] # "absent"}]
  /\ bare' = [bare EXCEPT ![c] = {k \in Key : status[k] # "absent"} \ deposits]
  /\ UNCHANGED <<database, overdue, up, warned, pended>>

\* The job fires: a check reads the pending transfers, deposit row included.
Fire(c) ==
  /\ up
  /\ left[c] = {}
  /\ left' = [left EXCEPT ![c] = Pending]
  /\ bare' = [bare EXCEPT ![c] = Pending \ deposits]
  /\ UNCHANGED <<database, overdue, up, warned, pended>>

Drop(c, k) == left' = [left EXCEPT ![c] = @ \ {k}]

\* A mutation: the age is not compared, or in the wrong unit.
SkipWhateverTheAge(c, k) ==
  /\ k \in left[c] \ bare[c]
  /\ Drop(c, k)
  /\ UNCHANGED <<database, overdue, up, bare, warned, pended>>

\* The transfer is not overdue yet.
Skip(c, k) ==
  /\ k \in left[c] \ bare[c]
  /\ k \notin overdue
  /\ Drop(c, k)
  /\ UNCHANGED <<database, overdue, up, bare, warned, pended>>

\* Its message is rendered and sent.  Nothing looks at the transfer again.
Warn(c, k) ==
  /\ k \in left[c] \ bare[c]
  /\ k \in overdue
  /\ Drop(c, k)
  /\ warned' = warned \union {k}
  /\ UNCHANGED <<database, overdue, up, bare, pended>>

\* A mutation: the checks outlive the listeners.
ExitWithoutChecks ==
  /\ up' = FALSE
  /\ UNCHANGED <<database, overdue, check, warned, pended>>

\* The process ends: the checks are gone, the tables are left.
Exit ==
  /\ up' = FALSE
  /\ left' = [c \in Check |-> {}]
  /\ bare' = [c \in Check |-> {}]
  /\ UNCHANGED <<database, overdue, warned, pended>>

\* `transfer.deposit!` is null: a TypeError rejects the promise of the check.
Reject(c, k) ==
  /\ k \in left[c] \intersect bare[c]
  /\ Exit

Look(c) == \E k \in Key : Skip(c, k) \/ Warn(c, k) \/ Reject(c, k)

-----------------------------------------------------------------------------
(* Faults. *)

\* sendNotification catches what the service throws.
SendFails(c, k) ==
  /\ k \in left[c] \ bare[c]
  /\ k \in overdue
  /\ Drop(c, k)
  /\ UNCHANGED <<database, overdue, up, bare, warned, pended>>

\* The process ends for any other reason, a query of a check that throws included.
Crash == up /\ Exit

Step ==
  \/ Start
  \/ \E k \in Key : Index(k) \/ Age(k)
  \/ \E c \in Check : Fire(c) \/ Look(c)

Fault == Crash \/ \E c \in Check, k \in Key : SendFails(c, k)

Next == Step \/ Fault

\* The container starts the process again; the job fires every second of every
\* tenth minute, and a check in progress goes on.  Nothing is assumed of listeners.
Fairness ==
  /\ WF_vars(Start)
  /\ \A c \in Check : WF_vars(Fire(c)) /\ WF_vars(Look(c))

Spec == Init /\ [][Next]_vars
FairSpec == Spec /\ Fairness

\* Every call is answered, and nothing from outside ends the process.
QuietSpec == Init /\ [][Step]_vars /\ Fairness

-----------------------------------------------------------------------------
(* Properties. *)

\* However checks overlap with each other, with the indexers and with restarts,
\* nobody is warned of a transfer that was never pending or whose deposit is not
\* overdue, and what a check has read of a deposit's row still holds.
WarningsAreJustified ==
  /\ warned \subseteq pended \intersect overdue
  /\ \A c \in Check : left[c] \ bare[c] \subseteq deposits \intersect pended

\* Once nothing fails any more from outside, a transfer that stays pending until
\* it is overdue, and after, is warned of: the checks that end with the process,
\* because of another transfer, do not go on doing so.  Unless some transfer stays
\* pending without a deposit row for good, as an error that the Substrate indexer
\* only logs can leave it: every check may then end before it warns of anything.
Bare(k) == k \in Pending \ deposits
OverdueAreWarned ==
  \/ []<><<Fault /\ ~Step>>_vars
  \/ \E k \in Key : <>[]Bare(k)
  \/ \A k \in Key : k \in overdue \intersect Pending ~> (k \in warned \/ k \notin Pending)

\* What getCronJob says with its try and its message "Error while executing cron
\* job function": an error of a check is logged, and the process goes on.
ChecksDoNotEndTheProcess == [][up => up']_vars
=============================================================================
