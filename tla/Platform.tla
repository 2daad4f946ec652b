-------------------------------- MODULE Platform --------------------------------
(***************************************************************************)
(* The API server, the commands of users and the scheduler's monitor over  *)
(* one registry. The server writes alone, or shares the file with commands *)
(* that run on its machine.                                                *)
(***************************************************************************)
EXTENDS Naturals, FiniteSets

CONSTANTS Users, Test, Names, Experts, LIMIT,
          Jobs,       \* the commands, for either value of shared
          Owner, Own, \* the user and the expert there are at first
          MaxJobs,    \* bound on the commands that are given
          MaxFaults, MaxClock

VARIABLES tables, users, usersNew, wallets, made, experts, clock, top, spaced, call, srv,
          job,      \* job[c]: the command c runs
          cursor,   \* lastExpertTimestamp of the scheduler
          seen,     \* seen[e]: timestamp of the row of e the scheduler processed last
          shared,   \* whether other processes open the file, too: commands, the scheduler
          joined,   \* history: users whose signup was answered
          cut,      \* history: a crash hit the users table between DROP and RENAME
          jobs,     \* how many commands were given
          faults

C == INSTANCE RegistryClient
S == INSTANCE RegistryServer
G == INSTANCE Registry

Start == 3   \* Date.now() at first: later than the row of Own

\* A user is added to the file itself.
ASSUME PlatformAssumption ==
    /\ Owner \in Users /\ Own \in Experts /\ Test \notin Users /\ "main" \in Names
    /\ LIMIT \in Nat \ {0} /\ MaxJobs \in Nat /\ MaxFaults \in Nat
    /\ MaxClock \in Nat /\ MaxClock >= Start
    /\ Jobs \in [BOOLEAN -> SUBSET [cmd : C!Cmds, user : Users, name : Names, dflt : BOOLEAN,
                                   e : Experts, via : {"http", "file"}]]
    /\ \A j \in Jobs[FALSE] : j.via = "http"
    /\ \A b \in BOOLEAN : \A j \in Jobs[b] : j.cmd = "user add" => j.via = "file"

Commands == 1..MaxJobs   \* the process or the client of the n-th command

Server == 0
Processes == Commands \cup {Server}

registryVars == <<tables, users, usersNew, wallets, made, experts, top, spaced>>
monitorVars == <<cursor, seen>>
historyVars == <<joined, cut>>
vars == <<registryVars, clock, call, srv, job, monitorVars, shared, historyVars, jobs, faults>>

NoJob == [cmd |-> "none"]
Main == [id |-> 1, name |-> "main", dflt |-> TRUE, user |-> Owner]

\* One user with the wallet of the signup and an expert; a crash of an earlier run may
\* have left the test row.
Init ==
    /\ tables = {"users"}
    /\ users \in {{[pubkey |-> Owner, ext |-> ""]}, {[pubkey |-> Owner, ext |-> ""], G!TestRow}}
    /\ usersNew = {} /\ wallets = {Main} /\ made = 1
    /\ experts = [e \in Experts |->
          IF e = Own THEN [wallet |-> 1, user |-> Owner, disabled |-> FALSE, at |-> 1]
          ELSE G!NoExpert]
    /\ top = 1 /\ spaced = {Own} /\ clock = Start
    /\ call = [p \in Processes |-> G!NoCall] /\ srv = "up"
    /\ job = [c \in Commands |-> NoJob]
    /\ cursor = 0 /\ seen = [e \in Experts |-> 0]
    /\ shared \in BOOLEAN
    /\ joined = {Owner} /\ cut = FALSE
    /\ jobs = 0 /\ faults = 0

(***************************************************************************)
(* Commands                                                                *)
(***************************************************************************)
Begin(c) ==
    /\ c = jobs + 1
    /\ \E j \in Jobs[shared] :
          /\ job' = [job EXCEPT ![c] = j]
          /\ \E k \in C!Opens(j) : call' = [call EXCEPT ![c] = k]
    /\ jobs' = jobs + 1
    /\ UNCHANGED <<registryVars, clock, srv, monitorVars, shared, historyVars, faults>>

Continue(c) ==
    /\ G!At(c, "done")
    /\ LET v == C!Result(job[c], call[c]) IN
       /\ \E k \in C!Follows(job[c], call[c], v) :
             /\ call' = [call EXCEPT ![c] = k]
             /\ job' = IF k = G!NoCall THEN [job EXCEPT ![c] = NoJob] ELSE job
       /\ joined' = IF job[c].cmd = "signup" /\ v.is = "id" THEN joined \cup {v.id} ELSE joined
    /\ UNCHANGED <<registryVars, clock, srv, monitorVars, shared, cut, jobs, faults>>

(***************************************************************************)
(* Statements: those of one process are not interleaved                    *)
(***************************************************************************)
ServedByServer(p) == p = Server \/ (job[p] # NoJob /\ C!Far(job[p]))
Turn(p) ==
    ServedByServer(p) =>
        \A q \in Processes \ {p} : ~(ServedByServer(q) /\ S!Runs(q))

Elsewhere == UNCHANGED <<clock, job, monitorVars, shared, historyVars, jobs, faults>>

Run(p) == Turn(p) /\ G!Statement(p) /\ UNCHANGED srv /\ Elsewhere

Serve(c) ==
    /\ job[c] # NoJob /\ C!Far(job[c])
    /\ Turn(c)
    /\ S!Handle(c) \/ S!WalletMade(c) \/ S!Bonus(c)
    /\ Elsewhere

AddUser(c) ==
    /\ \/ C!executeAddUserCommand(c)
       \/ C!listUsers(c) /\ UNCHANGED registryVars
    /\ UNCHANGED srv /\ Elsewhere

Process == (S!constructor \/ S!start) /\ Elsewhere
Fails(c) == S!Unreachable(c) /\ Elsewhere

(***************************************************************************)
(* Faults                                                                  *)
(***************************************************************************)
Fault ==
    /\ faults < MaxFaults
    /\ faults' = faults + 1
    /\ UNCHANGED <<clock, monitorVars, shared, jobs, joined>>

\* The server's own faults are looked at where it is alone.
ServerFault == Fault /\ ~shared

Cutting(p) == G!At(p, "rename")

CrashServer ==
    /\ ServerFault
    /\ S!Crash({c \in Commands : ServedByServer(c)})
    /\ cut' = (cut \/ Cutting(Server))
    /\ UNCHANGED job

StopServer == ServerFault /\ S!stop /\ UNCHANGED <<job, cut>>

\* A command on the server's machine is interrupted.
KillCommand(c) ==
    /\ Fault
    /\ job[c] # NoJob /\ ~C!Far(job[c])
    /\ job' = [job EXCEPT ![c] = NoJob]
    /\ call' = [call EXCEPT ![c] = G!NoCall]
    /\ cut' = (cut \/ Cutting(c))
    /\ UNCHANGED <<registryVars, srv>>

\* The connection breaks before the answer arrives.
LoseAnswer(c) ==
    /\ ServerFault
    /\ G!At(c, "done") /\ C!Far(job[c])
    /\ S!Refuses(c, "broken")
    /\ UNCHANGED <<registryVars, srv, job, cut>>

WalletService(c) == ServerFault /\ Turn(c) /\ S!WalletNotMade(c) /\ UNCHANGED <<job, cut>>

(***************************************************************************)
(* The scheduler's monitor                                                 *)
(***************************************************************************)
Newer(e, t) == IF experts[e].at > t THEN experts[e].at ELSE t
Greatest(page) == CHOOSE t \in {experts[e].at : e \in page} : \A e \in page : experts[e].at <= t

monitorExperts ==
    /\ shared
    /\ \E page \in G!listExpertsAfter(cursor) \ {{}} :
          /\ seen' = [e \in Experts |-> IF e \in page THEN experts[e].at ELSE seen[e]]
          /\ cursor' = Greatest(page) + 1
    /\ UNCHANGED <<registryVars, clock, call, srv, job, shared, historyVars, jobs, faults>>

\* Between its timestamp and its statement a process may wait for the lock of another.
Tick ==
    /\ shared /\ clock < MaxClock
    /\ clock' = clock + 1
    /\ UNCHANGED <<registryVars, call, srv, job, monitorVars, shared, historyVars, jobs, faults>>

Next ==
    \/ Process \/ CrashServer \/ StopServer \/ monitorExperts \/ Tick
    \/ Run(Server)
    \/ \E c \in Commands :
          \/ Begin(c) \/ Continue(c) \/ Run(c) \/ Serve(c) \/ AddUser(c) \/ Fails(c)
          \/ KillCommand(c) \/ LoseAnswer(c) \/ WalletService(c)

Spec == Init /\ [][Next]_vars
FairSpec == Spec /\ WF_vars(monitorExperts)

(***************************************************************************)
(* Properties                                                              *)
(***************************************************************************)
TypeOK ==
    /\ G!TypeOK
    /\ srv \in {"down", "starting", "up", "stopped"}
    /\ job \in [Commands -> Jobs[shared] \cup {NoJob}]
    /\ cursor \in 0..(MaxClock + 1) /\ seen \in [Experts -> 0..MaxClock]
    /\ joined \subseteq Users

\* As long as the server writes alone, whatever requests overlap, break off or fail: a user
\* has at most one default wallet, and the wallet an expert is paid to exists and belongs
\* to the expert's user (insertWallet, updateWallet, deleteWallet, insertExpert,
\* updateExpert).
TablesAgree ==
    ~shared =>
      /\ \A u \in Users : Cardinality({w \in G!Of(u) : w.dflt}) <= 1
      /\ \A e \in Experts : G!Exists(e) =>
            \E w \in G!Of(experts[e].user) : w.id = experts[e].wallet

\* A user whose signup was answered is kept, also by the migration that a test row left by
\* a crash sets off at every start, unless the process is killed between DROP and RENAME
\* (initDatabase).
UsersStay ==
    ~shared /\ ~cut => \A u \in joined : \E r \in users \cup usersNew : r.pubkey = u

\* The monitor reaches the last version of every row that was written at least two
\* milliseconds after all earlier ones, whatever the pages are (monitorExperts).
Reached(e) == G!Exists(e) /\ e \in spaced => seen[e] = experts[e].at
ChangesAreSeen == <>[](shared => \A e \in Experts : Reached(e))

\* A user whose signup was answered has a wallet ("Create a default wallet named 'main'").
UsersHaveWallet == \A u \in joined : \E w \in wallets : w.user = u
=============================================================================
