---------------------------- MODULE RecordStore ----------------------------
(***************************************************************************)
(* The store of session records (linux/ro_installer_records.py,            *)
(* Recorder.__init__): a starting session takes the store lock, measures   *)
(* what is there, reserves its own worst case and creates its directory.   *)
(* The sessions already there go on writing meanwhile: only starts exclude *)
(* each other.  In production a start also holds the installation lease,   *)
(* so at most one session is alive (leased).                               *)
(***************************************************************************)
EXTENDS Integers, FiniteSets

CONSTANTS
    Session,       \* sessions that may start, one after the other or together
    MaxSessions,   \* LIMITS['sessions']
    SessionBytes,  \* LIMITS['sessionBytes']
    SummaryBytes,  \* LIMITS['summaryBytes']
    StoreBytes,    \* LIMITS['storeBytes']
    None           \* no session

ASSUME StoreAssumption ==
    /\ None \notin Session
    /\ MaxSessions \in Nat \ {0} /\ SessionBytes \in Nat /\ SummaryBytes \in Nat
    /\ StoreBytes \in Nat

VARIABLES
    leased,   \* the installation lease lets one session be alive at a time
    state,    \* per session: "absent", "live", "closed" or "refused"
    files,    \* per session: sizes of its members, 0 when a summary is absent
    starter,  \* the session that holds .store.lock
    unread,   \* starter: directories not scanned yet
    scan,     \* starter: the directory it is in, members left, size, active
    used,     \* starter: what the directories scanned so far amount to
    refusal   \* logError of the sessions refused

store == <<leased, state, files, starter, unread, scan, used, refusal>>

Member == {"events", "summary", "temp"}
Empty == [m \in Member |-> 0]
Idle == [in |-> None, left |-> {}, locking |-> FALSE, size |-> 0, active |-> FALSE]
Reservation == SessionBytes + 2 * SummaryBytes
Present == {s \in Session : state[s] \in {"live", "closed"}}

StoreInit ==
    /\ leased \in BOOLEAN
    /\ state = [s \in Session |-> "absent"]
    /\ files = [s \in Session |-> Empty]
    /\ starter = None /\ unread = {} /\ scan = Idle /\ used = 0
    /\ refusal = [s \in Session |-> "none"]

-----------------------------------------------------------------------------
(* A start.                                                                *)

\* Logging is off for this session; it creates nothing.
Refuse(s, error) ==
    /\ state' = [state EXCEPT ![s] = "refused"]
    /\ refusal' = [refusal EXCEPT ![s] = error]

Begin(s) ==
    /\ state[s] = "absent" /\ s # starter
    /\ leased => starter = None /\ \A t \in Session : state[t] # "live"
    /\ \/ /\ starter = None
          /\ starter' = s /\ unread' = Present /\ used' = 0
          /\ UNCHANGED <<state, refusal>>
       \/ /\ starter # None                            \* LOCK_NB
          /\ Refuse(s, "LOG_STORE_FULL")
          /\ UNCHANGED <<starter, unread, used>>
    /\ UNCHANGED <<leased, files, scan>>

Reject(error) ==
    /\ Refuse(starter, error)
    /\ starter' = None /\ unread' = {} /\ scan' = Idle
    /\ UNCHANGED <<leased, files, used>>

\* scandir of one session directory.
OpenDirectory(t) ==
    /\ starter # None /\ scan.in = None /\ t \in unread
    /\ unread' = unread \ {t}
    /\ scan' = [Idle EXCEPT !.in = t,
                  !.left = {m \in Member : m = "events" \/ files[t][m] > 0}]
    /\ UNCHANGED <<leased, state, files, starter, used, refusal>>

\* One member is opened and its size taken; it may have gone since the listing.
Measure(m) ==
    /\ scan.in # None /\ ~scan.locking /\ m \in scan.left
    /\ IF m # "events" /\ files[scan.in][m] = 0
       THEN Reject("LOG_STORE_UNSAFE")
       ELSE /\ scan' = [scan EXCEPT !.left = @ \ {m}, !.locking = (m = "events"),
                                    !.size = @ + files[scan.in][m]]
            /\ UNCHANGED <<leased, state, files, starter, unread, used, refusal>>

\* Mutant: a busy journal is taken for a finished one.
TakeForClosed ==
    /\ scan.in # None /\ scan.locking
    /\ scan' = [scan EXCEPT !.locking = FALSE]
    /\ UNCHANGED <<leased, state, files, starter, unread, used, refusal>>

\* After the size of events.jsonl its lock is tried: busy means alive.
TryLock ==
    /\ scan.in # None /\ scan.locking
    /\ scan' = [scan EXCEPT !.locking = FALSE, !.active = (state[scan.in] = "live")]
    /\ UNCHANGED <<leased, state, files, starter, unread, used, refusal>>

CloseDirectory ==
    /\ scan.in # None /\ ~scan.locking /\ scan.left = {}
    /\ IF Cardinality(Present \ unread) >= MaxSessions
       THEN Reject("LOG_STORE_FULL")
       ELSE /\ used' = used + (IF scan.active THEN Reservation ELSE scan.size)
            /\ scan' = Idle
            /\ UNCHANGED <<leased, state, files, starter, unread, refusal>>

\* Mutant: the reservation forgets the temporary summary.
AdmitTight ==
    /\ starter # None /\ scan.in = None /\ unread = {}
    /\ used + SessionBytes + SummaryBytes <= StoreBytes
    /\ state' = [state EXCEPT ![starter] = "live"]
    /\ starter' = None
    /\ UNCHANGED <<leased, files, unread, scan, used, refusal>>

Admit ==
    /\ starter # None /\ scan.in = None /\ unread = {}
    /\ used + Reservation <= StoreBytes
    /\ state' = [state EXCEPT ![starter] = "live"]
    /\ starter' = None
    /\ UNCHANGED <<leased, files, unread, scan, used, refusal>>

StoreFull ==
    /\ starter # None /\ scan.in = None /\ unread = {}
    /\ used + Reservation > StoreBytes
    /\ Reject("LOG_STORE_FULL")

-----------------------------------------------------------------------------
(* A live session.                                                         *)

AppendEvent(s) ==
    /\ state[s] = "live" /\ files[s]["events"] < SessionBytes
    /\ files' = [files EXCEPT ![s]["events"] = @ + 1]
    /\ UNCHANGED <<leased, state, starter, unread, scan, used, refusal>>

WriteTemp(s) ==
    /\ state[s] = "live" /\ files[s]["temp"] = 0
    /\ \E n \in 1..SummaryBytes : files' = [files EXCEPT ![s]["temp"] = n]
    /\ UNCHANGED <<leased, state, starter, unread, scan, used, refusal>>

Rename(s) ==
    /\ state[s] = "live" /\ files[s]["temp"] > 0
    /\ files' = [files EXCEPT ![s]["summary"] = files[s]["temp"], ![s]["temp"] = 0]
    /\ UNCHANGED <<leased, state, starter, unread, scan, used, refusal>>

\* close(), or the end of the process: the lock on events.jsonl goes, the files,
\* perhaps with a temporary summary, stay.
End(s) ==
    /\ state[s] = "live"
    /\ state' = [state EXCEPT ![s] = "closed"]
    /\ UNCHANGED <<leased, files, starter, unread, scan, used, refusal>>

StoreNext ==
    \/ \E s \in Session : \/ Begin(s) \/ AppendEvent(s) \/ WriteTemp(s)
                          \/ Rename(s) \/ End(s) \/ OpenDirectory(s)
    \/ \E m \in Member : Measure(m)
    \/ TryLock \/ CloseDirectory \/ Admit \/ StoreFull

StoreSpec == StoreInit /\ [][StoreNext]_store

-----------------------------------------------------------------------------
\* The space in use, unit by unit.
Blocks(s) == UNION {{<<s, m>>} \X (1..files[s][m]) : m \in Member}
Stored == Cardinality(UNION {Blocks(s) : s \in Session})

\* The store stays within its quota, whatever the sessions it admitted write
\* (the docstring says so of parallel starts too; it holds under the lease).
WithinQuota == Stored <= StoreBytes

\* Under the installation lease, whatever killed sessions left behind, the store
\* stays within its quota.
QuotaKept == leased => WithinQuota

\* However sessions start, those alive at once fit the store together at their
\* worst case, and no start exceeds the number of sessions.
LiveReserved ==
    /\ Cardinality({s \in Session : state[s] = "live"}) * Reservation <= StoreBytes
    /\ Cardinality(Present) <= MaxSessions
=============================================================================
