----------------------------- MODULE Admission ------------------------------
(***************************************************************************)
(* What the queue promises about admission: submitting a URL, following a  *)
(* link, listing a domain and unlisting it each happen at one instant.     *)
(* Module DomainLocks implements this with transactions and locks, and     *)
(* module CrawlQueue relies on it.                                         *)
(***************************************************************************)
EXTENDS Naturals

CONSTANTS
  Node,         \* (url, user_id) keys
  Host, HostOf  \* onion domains, and the domain of each node's URL

ASSUME HostAssumption == HostOf \in [Node -> Host]

VARIABLES
  status,    \* "absent", "pending", "busy" (claimed, done or failed), "blocked"
  blacklist,
  hostless   \* rows whose host column is NULL, which no listing finds

admissionVars == <<status, blacklist, hostless>>

Unblocked(h) ==
  {n \in Node \ hostless : HostOf[n] = h /\ status[n] \notin {"absent", "blocked"}}
BlockedOn(h) == {n \in Node : HostOf[n] = h /\ status[n] = "blocked"}

\* status with the rows of S set to st
Setting(S, st) == [n \in Node |-> IF n \in S THEN st ELSE status[n]]

\* EnqueueURL and the node insert of SaveEdge
Admit(n) ==
  /\ status[n] = "absent"
  /\ HostOf[n] \notin blacklist
  /\ status' = Setting({n}, "pending")
  /\ UNCHANGED <<blacklist, hostless>>

\* AddBlacklist.  A domain that is listed again may have rows that came back to the
\* queue all the same; one that comes back meanwhile escapes.
Block(h) ==
  /\ blacklist' = blacklist \cup {h}
  /\ \E S \in SUBSET Unblocked(h) :
       /\ h \notin blacklist => S = Unblocked(h)
       /\ status' = Setting(S, "blocked")
  /\ UNCHANGED hostless

Unblock(h) ==
  /\ h \in blacklist
  /\ blacklist' = blacklist \ {h}
  /\ status' = Setting(BlockedOn(h), "pending")
  /\ UNCHANGED hostless

\* The rest of the system: crawling takes rows out of the queue and returns them to
\* it, and accounts delete their history.
Work(n) ==
  /\ status[n] = "pending"
  /\ status' = Setting({n}, "busy")
  /\ UNCHANGED <<blacklist, hostless>>

\* Retries, requeues and revivals.  RequeueForCrawl and ReviveFailedNodes write
\* without looking at the status again, which may be 'blocked' by then.
Return(n) ==
  /\ status[n] \in {"busy", "blocked"}
  /\ status' = Setting({n}, "pending")
  /\ UNCHANGED <<blacklist, hostless>>

\* SaveNode inserts a row that has been deleted under it, as 'completed' and
\* without its host.
Recreate(n) ==
  /\ status[n] = "absent"
  /\ status' = Setting({n}, "busy")
  /\ hostless' = hostless \cup {n}
  /\ UNCHANGED blacklist

Delete(n) ==
  /\ status[n] # "absent"
  /\ status' = Setting({n}, "absent")
  /\ hostless' = hostless \ {n}
  /\ UNCHANGED blacklist

AdmissionInit ==
  /\ status = [n \in Node |-> "absent"]
  /\ blacklist = {}
  /\ hostless = {}

AdmissionNext ==
  \/ \E n \in Node : Admit(n) \/ Work(n) \/ Return(n) \/ Recreate(n) \/ Delete(n)
  \/ \E h \in Host : Block(h) \/ Unblock(h)

AdmissionSpec == AdmissionInit /\ [][AdmissionNext]_admissionVars
=============================================================================
