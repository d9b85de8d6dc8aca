-------------------------------- MODULE MCParts --------------------------------
(***************************************************************************)
(* Small instances of the components that share no state with the others, *)
(* checked in one run: in a behaviour one of them moves.                   *)
(***************************************************************************)
EXTENDS ProfileFiles, TeamLock, VpnTunnel, DownloadQueue, CloudSession, ProfileTrash, TLC

CONSTANTS s1, u1, u2

VARIABLE moving  \* the component that moves

MCOwner == [d \in Seats |-> IF d = s1 THEN u1 ELSE u2]
\* Only one component moves: its interchangeable members may bear the names of another's.
MCSymmetry == Permutations(Installs)

PartsInit ==
  /\ FilesInit /\ LeaseInit /\ TunnelInit /\ QueueInit /\ SessionInit /\ TrashInit
  /\ moving \in {"files", "lease", "tunnel", "queue", "session", "trash"}
  /\ synced \/ moving = "trash"
  /\ unpinned = {} \/ moving = "tunnel"
PartsNext ==
  /\ UNCHANGED moving
  /\ \/ moving = "files" /\ FilesNext
        /\ UNCHANGED <<leaseVars, tunnelVars, queueVars, sessionVars, trashVars>>
     \/ moving = "lease" /\ LeaseNext
        /\ UNCHANGED <<filesVars, tunnelVars, queueVars, sessionVars, trashVars>>
     \/ moving = "tunnel" /\ TunnelNext
        /\ UNCHANGED <<filesVars, leaseVars, queueVars, sessionVars, trashVars>>
     \/ moving = "queue" /\ QueueNext
        /\ UNCHANGED <<filesVars, leaseVars, tunnelVars, sessionVars, trashVars>>
     \/ moving = "session" /\ SessionNext
        /\ UNCHANGED <<filesVars, leaseVars, tunnelVars, queueVars, trashVars>>
     \/ moving = "trash" /\ TrashNext
        /\ UNCHANGED <<filesVars, leaseVars, tunnelVars, queueVars, sessionVars>>
partsVars == <<moving, filesVars, leaseVars, tunnelVars, queueVars, sessionVars, trashVars>>
PartsSpec == PartsInit /\ [][PartsNext]_partsVars

\* Behaviours are not followed further than the properties speak of them: once what they
\* leave out has happened, and for the files once two such things have.  Of the VPN, a
\* check waits for the sweep of the start, one record at a time is being deleted, and after
\* the fault two starters at most are under way.
Undecided ==
  /\ excuses \cap Unsafe = {} /\ Cardinality(excuses \ {"looksNewer"}) <= 1
  /\ "forced" \in excuses => mishaps = 0 /\ edits <= 1
  /\ mishap \cap {"shared", "parted"} = {}
  /\ flaws \cap {"inFlight", "crashed"} = {}
  /\ excused = {}
  /\ lapses = {} /\ Cardinality(stopping) <= 1
  /\ sweep = "done" \/ \A t \in Checkers : task[t] = "idle"
  /\ faultsLeft = 0 => Cardinality({t \in Starters : task[t] # "idle"}) <= 2
================================================================================
