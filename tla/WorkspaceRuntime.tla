---------------------------- MODULE WorkspaceRuntime ---------------------------
(***************************************************************************)
(* The bundles of private workspaces (WorkspaceRuntime in                  *)
(* src/security/workspaces.py, initialize_research and shutdown_research,  *)
(* and the private half of lifespan): a bundle is built piece by piece     *)
(* under one lock, by whichever request needs it first, cached, and torn   *)
(* down in another order when the service stops.  Building may fail or be  *)
(* cancelled at any piece.                                                 *)
(*                                                                         *)
(* A piece is what must be released: the descriptor that holds the         *)
(* workspace's file lock, the graph driver, the agent's HTTP client, the   *)
(* job workers, the research scheduler.  The history, usage and            *)
(* investigation tables are steps of the building that own nothing.        *)
(***************************************************************************)
EXTENDS Naturals, Sequences, FiniteSets

CONSTANTS
  Workspaces,  \* the workspaces of the configuration
  Callers,     \* requests, and lifespan opening the configured workspaces
  MaxBundles   \* the cap of eight

Nobody == "nobody"

ASSUME WorkspaceRuntimeAssumption ==
  /\ IsFiniteSet(Workspaces) /\ IsFiniteSet(Callers) /\ MaxBundles \in Nat \ {0}
  /\ Nobody \notin Workspaces /\ Nobody \notin Callers

VARIABLES
  caller,   \* the calls of get(), and how far the bundle each of them builds is
  pieces,   \* the pieces a call has made that have not been released
  cache,    \* _resources: whose bundle serves each workspace
  holder,   \* who holds _lock
  stopping  \* how far shutdown() has come; past "waiting" it is _closed
runtimeVars == <<caller, pieces, cache, holder, stopping>>

\* The order they are built in.
Building == <<"descriptor", "driver", "agent", "jobs", "research">>
Unreachable == "no driver"  \* stands for the driver of a graph that could not be reached
Pieces == {Building[i] : i \in DOMAIN Building} \cup {Unreachable}
Release(c, piece) ==
  [pieces EXCEPT ![c] = @ \ (IF piece = "driver" THEN {piece, Unreachable} ELSE {piece})]
MutantUnwinding == <<"driver", "jobs", "agent", "descriptor">>
\* The order _create releases them in after a failure; the scheduler, which is last
\* to start, has stopped by then.
Unwinding == <<"jobs", "driver", "agent", "descriptor">>
\* The order shutdown() releases them in.
Closing == <<"research", "jobs", "driver", "agent", "descriptor">>

CallerRecord == [ws : Workspaces \cup {Nobody},
  at : {"idle", "waiting", "building", "unwinding", "closing", "over"},
  step : 0..(Len(Building) + 1)]
Cached == {w \in Workspaces : cache[w] # Nobody}

InitRuntime ==
  /\ caller = [c \in Callers |-> [ws |-> Nobody, at |-> "idle", step |-> 0]]
  /\ pieces = [c \in Callers |-> {}]
  /\ cache = [w \in Workspaces |-> Nobody]
  /\ holder = Nobody
  /\ stopping = "no"

Moves(c, at, step) == [caller EXCEPT ![c].at = at, ![c].step = step]

-----------------------------------------------------------------------------
\* get() reads the configuration and waits for the lock.
AskBundle(c, w) ==
  /\ caller[c].at = "idle"
  /\ caller' = [caller EXCEPT ![c] = [ws |-> w, at |-> "waiting", step |-> 0]]
  /\ UNCHANGED <<pieces, cache, holder, stopping>>

MutantServed(w) == FALSE
\* A workspace that has its bundle needs no other.
Served(w) == w \in Cached

\* Under the lock: closed, served, full, or a bundle to build.
EnterRuntime(c) ==
  /\ caller[c].at = "waiting" /\ holder = Nobody
  /\ IF stopping \notin {"no", "waiting"} \/ Served(caller[c].ws)
        \/ Cardinality(Cached) >= MaxBundles
     THEN caller' = Moves(c, "over", 0) /\ UNCHANGED holder
     ELSE caller' = Moves(c, "building", 1) /\ holder' = c
  /\ UNCHANGED <<pieces, cache, stopping>>

\* A piece is made.  A graph that cannot be reached may leave no driver behind; the
\* bundle is built all the same.
BuildPiece(c, made) ==
  /\ caller[c].at = "building" /\ caller[c].step <= Len(Building)
  /\ LET piece == Building[caller[c].step]
     IN /\ made \/ piece = "driver"
        /\ pieces' = [pieces EXCEPT ![c] = @ \cup {IF made THEN piece ELSE Unreachable}]
  /\ caller' = Moves(c, "building", caller[c].step + 1)
  /\ UNCHANGED <<cache, holder, stopping>>

\* The finished bundle is cached in the step that returns it.
CacheBundle(c) ==
  /\ caller[c].at = "building" /\ caller[c].step > Len(Building)
  /\ cache' = [cache EXCEPT ![caller[c].ws] = c]
  /\ caller' = Moves(c, "over", 0)
  /\ holder' = Nobody
  /\ UNCHANGED <<pieces, stopping>>

\* Building fails or is cancelled, between pieces or while the scheduler starts.
\* One fault per call: a second one, during the unwinding, would cut it short.
BuildFails(c) ==
  /\ caller[c].at = "building" /\ caller[c].step \in 2..Len(Building)
  /\ caller' = Moves(c, "unwinding", 1)
  /\ UNCHANGED <<pieces, cache, holder, stopping>>

UnwindPiece(c) ==
  /\ caller[c].at = "unwinding"
  /\ IF caller[c].step <= Len(Unwinding)
     THEN /\ pieces' = Release(c, Unwinding[caller[c].step])
          /\ caller' = Moves(c, "unwinding", caller[c].step + 1)
          /\ UNCHANGED holder
     ELSE /\ caller' = Moves(c, "over", 0)
          /\ holder' = Nobody
          /\ UNCHANGED pieces
  /\ UNCHANGED <<cache, stopping>>

\* A caller that waits for the lock is cancelled.
StopWaiting(c) ==
  /\ caller[c].at = "waiting"
  /\ caller' = Moves(c, "over", 0)
  /\ UNCHANGED <<pieces, cache, holder, stopping>>

-----------------------------------------------------------------------------
BeginShutdown ==
  /\ stopping = "no"
  /\ stopping' = "waiting"
  /\ UNCHANGED <<caller, pieces, cache, holder>>

\* With the lock, the bundles are taken out of the cache; they are closed after it
\* has been released, side by side.
TakeBundles ==
  /\ stopping = "waiting" /\ holder = Nobody
  /\ stopping' = "closing"
  /\ cache' = [w \in Workspaces |-> Nobody]
  /\ caller' = [c \in Callers |-> IF \E w \in Workspaces : cache[w] = c
                                  THEN [caller[c] EXCEPT !.at = "closing", !.step = 1]
                                  ELSE caller[c]]
  /\ UNCHANGED <<pieces, holder>>

\* One cleanup ends, by itself or with an error that is kept for later.
ClosePiece(c) ==
  /\ caller[c].at = "closing"
  /\ pieces' = Release(c, Closing[caller[c].step])
  /\ caller' = IF caller[c].step = Len(Closing) THEN Moves(c, "over", 0)
               ELSE Moves(c, "closing", caller[c].step + 1)
  /\ UNCHANGED <<cache, holder, stopping>>

EndShutdown ==
  /\ stopping = "closing" /\ \A c \in Callers : caller[c].at # "closing"
  /\ stopping' = "done"
  /\ UNCHANGED <<caller, pieces, cache, holder>>

NextRuntime ==
  \/ \E c \in Callers, w \in Workspaces : AskBundle(c, w)
  \/ \E c \in Callers : EnterRuntime(c) \/ CacheBundle(c) \/ BuildFails(c)
  \/ \E c \in Callers, made \in BOOLEAN : BuildPiece(c, made)
  \/ \E c \in Callers : UnwindPiece(c) \/ StopWaiting(c) \/ ClosePiece(c)
  \/ BeginShutdown \/ TakeBundles \/ EndShutdown

RuntimeSpec == InitRuntime /\ [][NextRuntime]_runtimeVars

-----------------------------------------------------------------------------
RuntimeTypeOK ==
  /\ caller \in [Callers -> CallerRecord] /\ pieces \in [Callers -> SUBSET Pieces]
  /\ cache \in [Workspaces -> Callers \cup {Nobody}]
  /\ holder \in Callers \cup {Nobody}
  /\ stopping \in {"no", "waiting", "closing", "done"}

\* Every piece belongs to a bundle that is being built, unwound, served or closed:
\* nothing outlives a failed building or the shutdown, which cannot overtake a
\* building that is under way or be overtaken by one that waited for the lock.
NoPieceLeaks ==
  \A c \in Callers : pieces[c] # {} =>
    \/ caller[c].at \in {"building", "unwinding", "closing"}
    \/ \E w \in Workspaces : cache[w] = c

\* No two bundles of a workspace exist at once - its queue has one set of workers -
\* and the cap counts the bundle that is being built.
OneBundlePerWorkspace ==
  /\ \A c, o \in Callers : c # o /\ caller[c].ws = caller[o].ws =>
       pieces[c] = {} \/ pieces[o] = {}
  /\ Cardinality({c \in Callers : pieces[c] # {}}) <= MaxBundles

\* Whatever is torn down, and after whichever fault: the scheduler stops before the
\* workers it submits to, these before the driver and the client they use, and the
\* workspace's file lock is given up last.
UsersStopFirst ==
  \A c \in Callers :
    /\ "research" \in pieces[c] => "jobs" \in pieces[c]
    /\ "jobs" \in pieces[c] =>
         "agent" \in pieces[c] /\ {"driver", Unreachable} \cap pieces[c] # {}
    /\ pieces[c] # {} => "descriptor" \in pieces[c]

RuntimeHolds == RuntimeTypeOK /\ NoPieceLeaks /\ OneBundlePerWorkspace /\ UsersStopFirst
=============================================================================
