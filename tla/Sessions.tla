-------------------------------- MODULE Sessions -------------------------------
(***************************************************************************)
(* Browser sessions over a configuration file that the operator edits      *)
(* while the service runs (src/security/identity.py, the login and logout  *)
(* routes in auth_routes.py and the middleware's two checks).  Everything  *)
(* is a read of the file followed by a read or a transaction of the        *)
(* database, so a rotation of the token, a lost membership, an expiry, an  *)
(* eviction or a logout elsewhere can fall in between.                     *)
(*                                                                         *)
(* One principal and one workspace: every check looks at one principal.    *)
(* Tokens are numbered and never reused; hashes, cookies' syntax, origins, *)
(* bearer tokens and the audit table are left out.                         *)
(***************************************************************************)
EXTENDS Naturals, FiniteSets

CONSTANTS
  Browsers,
  MaxLogins,     \* bound: sessions created in a run
  MaxSessions,   \* MAX_SESSIONS
  Lifetime,      \* SESSION_SECONDS
  MaxToken,      \* bound: rotations of the token
  LastSecond     \* bound: the clock

ASSUME SessionsAssumption ==
  /\ MaxLogins \in Nat /\ MaxSessions \in Nat \ {0} /\ Lifetime \in Nat \ {0}
  /\ MaxToken \in Nat \ {0} /\ LastSecond \in Nat

VARIABLES
  config,    \* the operator's file
  sessions,  \* auth_sessions
  browser,   \* the browsers and the request each has in flight
  seconds,   \* the clock
  created,   \* session ids given out
  entitled,  \* history: a request's session was good at a check of its own
  stale      \* history: a request was accepted that never was entitled
sessionVars == <<config, sessions, browser, seconds, created, entitled, stale>>

SessionIds == 1..MaxLogins
NoSession == 0
Config == [token : 1..MaxToken, member : BOOLEAN, listed : BOOLEAN]
Row == [id : SessionIds, token : 1..MaxToken, expires : Nat, made : Nat]

\* A request reads the file ("config"), then the table ("row"); `phase` is what it is
\* for: the middleware's authenticate and authorize, the steps of a login, a logout.
Phases == {"none", "authenticate", "authorize", "select", "previous", "logout"}
BrowserRecord == [cookie : SessionIds \cup {NoSession}, new : SessionIds \cup {NoSession},
  at : {"idle", "config", "row", "insert", "dropNew", "dropOld"}, phase : Phases,
  read : Config, typed : 1..MaxToken, now : Nat]

Start == [token |-> 1, member |-> TRUE, listed |-> TRUE]
Quiet(cookie) == [cookie |-> cookie, new |-> NoSession, at |-> "idle", phase |-> "none",
                  read |-> Start, typed |-> 1, now |-> 0]

InitSessions ==
  /\ config = Start /\ sessions = {} /\ seconds = 0 /\ created = 0
  /\ browser = [b \in Browsers |-> Quiet(NoSession)]
  /\ entitled = [b \in Browsers |-> FALSE]
  /\ stale = FALSE

-----------------------------------------------------------------------------
Live(row) == row.expires > seconds
MutantMatches(id, conf) ==
  conf.listed /\ \E row \in sessions : row.id = id /\ Live(row)
\* The row a session id selects, against the file read before it.
Matches(id, conf) ==
  conf.listed /\ \E row \in sessions : row.id = id /\ Live(row) /\ row.token = conf.token

\* The session in question, and whether the check of a phase lets it pass.
Subject(b) == IF browser[b].phase = "select" THEN browser[b].new ELSE browser[b].cookie
Passed(b) ==
  /\ Matches(Subject(b), browser[b].read)
  /\ browser[b].phase \in {"authorize", "select"} => browser[b].read.member

\* What a session is worth now.
Good(id) ==
  /\ config.listed /\ config.member
  /\ \E row \in sessions : row.id = id /\ Live(row) /\ row.token = config.token

At(b, at, phase) == [browser EXCEPT ![b] =
  [Quiet(@.cookie) EXCEPT !.new = browser[b].new, !.at = at, !.phase = phase]]
Rest == <<config, seconds, created, entitled, stale>>

-----------------------------------------------------------------------------
(***************************************************************************)
(* Login.                                                                  *)
(***************************************************************************)

\* create_session reads the file and compares the token that was typed.
BeginLogin(b, token) ==
  /\ browser[b].at = "idle" /\ created < MaxLogins
  /\ config.listed /\ token = config.token
  /\ created' = created + 1
  /\ browser' = [browser EXCEPT ![b] =
       [@ EXCEPT !.at = "insert", !.phase = "select", !.new = created + 1,
                 !.typed = token, !.now = seconds]]
  /\ UNCHANGED <<config, sessions, seconds, entitled, stale>>

Newer(r, o) == r.made > o.made \/ (r.made = o.made /\ r.id > o.id)
\* The newest MAX_SESSIONS rows.
Capped(rows) == {r \in rows : Cardinality({o \in rows : Newer(o, r)}) < MaxSessions}

\* Its transaction: expired rows go, the new one is added, the cap is applied.
InsertSession(b) ==
  /\ browser[b].at = "insert"
  /\ LET r == browser[b]
         new == [id |-> r.new, token |-> r.typed, expires |-> r.now + Lifetime, made |-> r.now]
     IN sessions' = Capped({o \in sessions : o.expires > r.now} \cup {new})
  /\ browser' = At(b, "config", "select")
  /\ UNCHANGED Rest

\* One DELETE by id: of a login that was refused, of the session a login replaces,
\* of a logout.
DropSession(b) ==
  /\ browser[b].at \in {"dropNew", "dropOld"}
  /\ LET r == browser[b]
     IN /\ sessions' = {o \in sessions :
                          o.id # (IF r.at = "dropNew" THEN r.new ELSE r.cookie)}
        /\ browser' = [browser EXCEPT ![b] =
             Quiet(IF r.at = "dropNew" THEN r.cookie
                   ELSE IF r.phase = "logout" THEN NoSession ELSE r.new)]
  /\ UNCHANGED Rest

-----------------------------------------------------------------------------
(***************************************************************************)
(* Requests.                                                               *)
(***************************************************************************)
BeginRequest(b, phase) ==
  /\ browser[b].at = "idle" /\ browser[b].cookie # NoSession
  /\ phase \in {"authenticate", "logout"}
  /\ browser' = At(b, "config", phase)
  /\ UNCHANGED <<sessions, Rest>>

\* An unreadable file is a 503: a login that asks about the session it replaces goes
\* on, a new session is revoked, any other request ends.
Unreadable(b) ==
  CASE browser[b].phase = "select" -> At(b, "dropNew", "select")
    [] browser[b].phase = "previous" -> [browser EXCEPT ![b] = Quiet(browser[b].new)]
    [] OTHER -> [browser EXCEPT ![b] = Quiet(browser[b].cookie)]

ReadConfig(b, readable) ==
  /\ browser[b].at = "config"
  /\ IF readable
     THEN /\ browser' = [browser EXCEPT ![b].at = "row", ![b].read = config]
          /\ entitled' = [entitled EXCEPT ![b] =
               @ \/ (browser[b].phase \in {"authenticate", "authorize"} /\ Good(browser[b].cookie))]
     ELSE /\ browser' = Unreadable(b)
          /\ entitled' = [entitled EXCEPT ![b] = FALSE]
  /\ UNCHANGED <<config, sessions, seconds, created, stale>>

\* The table is read and the phase is over.
ReadRow(b) ==
  /\ browser[b].at = "row"
  /\ LET r == browser[b]
         passed == Passed(b)
     IN /\ browser' =
             CASE r.phase = "authenticate" /\ passed -> At(b, "config", "authorize")
               [] r.phase = "select" ->
                    IF ~passed THEN At(b, "dropNew", "select")
                    ELSE IF r.cookie = NoSession THEN [browser EXCEPT ![b] = Quiet(r.new)]
                    ELSE At(b, "config", "previous")
               [] r.phase \in {"previous", "logout"} /\ passed -> At(b, "dropOld", r.phase)
               [] r.phase = "previous" -> [browser EXCEPT ![b] = Quiet(r.new)]
               [] r.phase = "logout" -> [browser EXCEPT ![b] = Quiet(NoSession)]
               [] OTHER -> [browser EXCEPT ![b] = Quiet(r.cookie)]
        /\ stale' = (stale \/ (r.phase = "authorize" /\ passed /\ ~entitled[b]))
        /\ entitled' = [entitled EXCEPT ![b] = @ /\ r.phase = "authenticate" /\ passed]
  /\ UNCHANGED <<config, sessions, seconds, created>>

-----------------------------------------------------------------------------
\* The operator rotates the token, changes the membership, removes or restores the
\* principal.
EditConfig(new) ==
  /\ new # config
  /\ new.token \in {config.token, config.token + 1}
  /\ config' = new
  /\ UNCHANGED <<sessions, browser, seconds, created, entitled, stale>>

SecondPasses ==
  /\ seconds < LastSecond
  /\ seconds' = seconds + 1
  /\ UNCHANGED <<config, sessions, browser, created, entitled, stale>>

NextSessions ==
  \/ \E b \in Browsers, token \in 1..MaxToken : BeginLogin(b, token)
  \/ \E b \in Browsers : InsertSession(b) \/ DropSession(b) \/ ReadRow(b)
  \/ \E b \in Browsers, readable \in BOOLEAN : ReadConfig(b, readable)
  \/ \E b \in Browsers, phase \in Phases : BeginRequest(b, phase)
  \/ \E new \in Config : EditConfig(new)
  \/ SecondPasses

SessionsSpec == InitSessions /\ [][NextSessions]_sessionVars

-----------------------------------------------------------------------------
SessionsTypeOK ==
  /\ config \in Config /\ sessions \subseteq Row
  /\ browser \in [Browsers -> BrowserRecord]
  /\ seconds \in 0..LastSecond /\ created \in 0..MaxLogins
  /\ entitled \in [Browsers -> BOOLEAN] /\ stale \in BOOLEAN

\* A request is accepted only if, at some instant after it began, its session was in
\* the table and had not expired, carried the operator's current token, and its
\* principal was a member: the file and the table are read apart, and either may
\* change in between.
AcceptedWhileEntitled == ~stale

\* The table keeps to its cap, whatever logins are computed before one another's
\* transactions.
SessionsBounded == Cardinality(sessions) <= MaxSessions

SessionsHold == SessionsTypeOK /\ AcceptedWhileEntitled /\ SessionsBounded
=============================================================================
