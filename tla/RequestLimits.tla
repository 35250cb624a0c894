----------------------------- MODULE RequestLimits -----------------------------
(***************************************************************************)
(* What a costly request passes before it runs: the sliding window of its  *)
(* client (_rate_limit_allow in src/api/routes.py), in memory, and then    *)
(* the fixed window of the whole resource (src/agent/usage.py), in one     *)
(* row.  The number of the fixed window is read from the clock before the  *)
(* lock or the transaction that uses it, so changes computed in one window *)
(* may be applied in the next, and behind changes of the next.  A request  *)
(* changes the row again when the provider's usage is recorded.            *)
(*                                                                         *)
(* One configuration: a process started with another window length resets  *)
(* the row.  Ask and sandbox requests, which the quota adds up, are one    *)
(* kind here; a client of the sandbox routes is a client of its own, as    *)
(* its key is.  Token counters are left out.                               *)
(***************************************************************************)
EXTENDS Naturals, Sequences, FiniteSets

CONSTANTS
  Clients,       \* rate-limit identities
  Requests,      \* requests in flight at a time
  RateMax,       \* RATE_LIMIT_MAX
  RateWindow,    \* RATE_LIMIT_WINDOW
  MaxTracked,    \* _MAX_TRACKED_CLIENTS
  QuotaLimit,    \* request_limit; 0 is no limit
  WindowSeconds, \* window_seconds
  EndOfTime      \* bound: the clock

ASSUME RequestLimitsAssumption ==
  /\ RateMax \in Nat \ {0} /\ RateWindow \in Nat \ {0} /\ MaxTracked \in Nat
  /\ QuotaLimit \in Nat /\ WindowSeconds \in Nat \ {0} /\ EndOfTime \in Nat

VARIABLES
  clock,    \* the time; the two clocks of the code run together
  bucket,   \* _rate_buckets: the hits of a client, absent ones <<>> and untracked
  tracked,  \* the clients that have a bucket
  request,  \* the requests in flight
  usage,    \* the row of usage_window
  hits,     \* history: when each client was let through, swept or not
  granted   \* history: reservations made against each window of the row
limitsVars == <<clock, bucket, tracked, request, usage, hits, granted>>

Times == 0..EndOfTime
Windows == 0..(EndOfTime \div WindowSeconds)
NoRow == [window |-> 0, used |-> 0, exists |-> FALSE]
RequestRecord == [at : {"idle", "limited", "reserving", "running", "recording"},
                  fresh : Windows]

InitLimits ==
  /\ clock = 0
  /\ bucket = [c \in Clients |-> <<>>] /\ tracked = {}
  /\ request = [q \in Requests |-> [at |-> "idle", fresh |-> 0]]
  /\ usage = NoRow
  /\ hits = [c \in Clients |-> <<>>]
  /\ granted = [w \in Windows |-> 0]

-----------------------------------------------------------------------------
Outside(t) == t + RateWindow <= clock
\* Where the loop that pops the oldest hit may stop; it stops at the first such place.
Stops(b) == {n \in 1..(Len(b) + 1) : n <= Len(b) => ~Outside(b[n])}
Recent(b) == SubSeq(b, CHOOSE n \in Stops(b) : \A m \in Stops(b) : n <= m, Len(b))

\* A bucket whose newest hit is outside the window.
Stale(b) == b = <<>> \/ Outside(b[Len(b)])

\* _rate_limit_allow: the caller's old hits go, whether it is let through or not;
\* past MaxTracked buckets the stale ones go, the caller's new one is not stale.
Admit(c, q) ==
  /\ request[q].at = "idle"
  /\ LET kept == Recent(bucket[c])
         hit == Append(kept, clock)
         known == tracked \cup {c}
         after == [bucket EXCEPT ![c] = IF Len(kept) >= RateMax THEN kept ELSE hit]
         swept == IF Len(kept) < RateMax /\ Cardinality(known) > MaxTracked
                  THEN {o \in known : Stale(after[o])} ELSE {}
     IN /\ tracked' = known \ swept
        /\ bucket' = [o \in Clients |-> IF o \in swept THEN <<>> ELSE after[o]]
        /\ IF Len(kept) >= RateMax THEN UNCHANGED <<hits, request>>
           ELSE /\ hits' = [hits EXCEPT ![c] = Append(Recent(hits[c]), clock)]
                /\ request' = [request EXCEPT ![q].at = "limited"]
  /\ UNCHANGED <<clock, usage, granted>>

-----------------------------------------------------------------------------
\* _change begins: the window's number is taken from the clock.
ReadClock(q) ==
  /\ request[q].at \in {"limited", "running"}
  /\ request' = [request EXCEPT ![q] =
       [at |-> IF @.at = "limited" THEN "reserving" ELSE "recording",
        fresh |-> clock \div WindowSeconds]]
  /\ UNCHANGED <<clock, bucket, tracked, usage, hits, granted>>

MutantRolled(w) ==
  IF ~usage.exists \/ usage.window # w
  THEN [window |-> w, used |-> 0, exists |-> TRUE] ELSE usage
\* apply(): an older row, and only an older one, gives way to an empty one.
Rolled(w) ==
  IF ~usage.exists \/ usage.window < w
  THEN [window |-> w, used |-> 0, exists |-> TRUE] ELSE usage

\* reserve(): refused, the row stays as it was, not even rolled over.
Reserve(q) ==
  /\ request[q].at = "reserving"
  /\ LET row == Rolled(request[q].fresh)
     IN IF QuotaLimit # 0 /\ row.used >= QuotaLimit
        THEN /\ request' = [request EXCEPT ![q] = [at |-> "idle", fresh |-> 0]]
             /\ UNCHANGED <<usage, granted>>
        ELSE /\ usage' = [row EXCEPT !.used = @ + 1]
             /\ granted' = [granted EXCEPT ![row.window] = @ + 1]
             /\ request' = [request EXCEPT ![q] = [at |-> "running", fresh |-> 0]]
  /\ UNCHANGED <<clock, bucket, tracked, hits>>

\* record() of the provider's usage.
RecordUsage(q) ==
  /\ request[q].at = "recording"
  /\ usage' = Rolled(request[q].fresh)
  /\ request' = [request EXCEPT ![q] = [at |-> "idle", fresh |-> 0]]
  /\ UNCHANGED <<clock, bucket, tracked, hits, granted>>

\* The store or the provider fails, or the client leaves: nothing is given back.
Abandon(q) ==
  /\ request[q].at # "idle"
  /\ request' = [request EXCEPT ![q] = [at |-> "idle", fresh |-> 0]]
  /\ UNCHANGED <<clock, bucket, tracked, usage, hits, granted>>

TimePasses ==
  /\ clock < EndOfTime
  /\ clock' = clock + 1
  /\ UNCHANGED <<bucket, tracked, request, usage, hits, granted>>

NextLimits ==
  \/ \E c \in Clients, q \in Requests : Admit(c, q)
  \/ \E q \in Requests : ReadClock(q) \/ Reserve(q) \/ RecordUsage(q) \/ Abandon(q)
  \/ TimePasses

LimitsSpec == InitLimits /\ [][NextLimits]_limitsVars

-----------------------------------------------------------------------------
LimitsTypeOK ==
  /\ clock \in Times /\ tracked \subseteq Clients
  /\ bucket \in [Clients -> Seq(Times)] /\ hits \in [Clients -> Seq(Times)]
  /\ request \in [Requests -> RequestRecord]
  /\ usage \in [window : Windows, used : Nat, exists : BOOLEAN]
  /\ granted \in [Windows -> Nat]

\* No client is let through more than RateMax times in any RateWindow, also when its
\* bucket was swept to make room for others; and no bucket is lost while it counts.
RateBounded ==
  \A c \in Clients :
    /\ Cardinality({i \in DOMAIN hits[c] : ~Outside(hits[c][i])}) <= RateMax
    /\ Recent(bucket[c]) = Recent(hits[c])
    /\ c \notin tracked => bucket[c] = <<>>

\* No window of the row grants more than the limit, in whatever order the changes
\* computed before and after its beginning arrive; and the row's counter is what it
\* granted: a late change never brings an earlier window back.
QuotaPerWindow ==
  /\ QuotaLimit # 0 => \A w \in Windows : granted[w] <= QuotaLimit
  /\ usage.exists => usage.used = granted[usage.window]

LimitsHold == LimitsTypeOK /\ RateBounded /\ QuotaPerWindow
=============================================================================
