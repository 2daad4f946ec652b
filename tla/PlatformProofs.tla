------------------------------ MODULE PlatformProofs ------------------------------
(***************************************************************************)
(* What the registry keeps for every set of users, names and experts, any  *)
(* commands, any pages, and any number of faults: the rows are well formed *)
(* whoever shares the file, and agree with each other while the server is  *)
(* the only one that writes.                                               *)
(***************************************************************************)
EXTENDS Platform, SequenceLemmas

-----------------------------------------------------------------------------
(* The calls of a process, one set of records for each kind of method.      *)

WalletRows == [id : Nat, name : Names, dflt : BOOLEAN, user : Users \cup {Test}]
ExpertRows == [wallet : Nat, user : Users \cup {Test}, disabled : BOOLEAN, at : Nat]
UserRows == [pubkey : Users, ext : {"", "ext"}] \cup {G!TestRow}

Plain == [is : {"true", "false", "null", "throws", "403", "503", "broken"}]
WalletAnswers == Plain \cup [is : {"row"}, row : WalletRows]
ExpertAnswers == Plain \cup [is : {"row"}, row : ExpertRows]
ListAnswers == Plain \cup [is : {"rows"}, rows : UNION {[D -> ExpertRows] : D \in SUBSET Experts}]
UserAnswers == Plain \cup [is : {"id"}, id : Users]
WalletIds == Plain \cup [is : {"id"}, id : Nat]

OpenCalls ==
    [m : {"initDatabase"}, at : {"open", "test", "untest", "create", "copy", "drop", "rename", "done"},
     user : Users \cup {Test}, key : Users \cup {Test, ""}, row : WalletRows, val : Plain]
UserAddCalls ==
    [m : {"insertUser"}, at : {"insert user", "list users", "done"},
     user : Users, key : Users, row : WalletRows, val : UserAnswers]
WalletReads ==
    [m : {"getWalletByName", "getDefaultWallet"}, at : {"sent", "read", "done"},
     user : Users, key : Names \cup {""}, row : WalletRows \cup ExpertRows, val : WalletAnswers]
ExpertReads ==
    [m : {"getExpert"}, at : {"sent", "read", "done"},
     user : Users, key : Experts, row : WalletRows, val : ExpertAnswers]
ExpertLists ==
    [m : {"listExperts"}, at : {"sent", "read", "done"},
     user : Users, key : Experts, row : WalletRows, val : ListAnswers]
InsertWallets ==
    [m : {"insertWallet"}, at : {"sent", "make", "count", "clear", "wallet", "done"},
     user : Users, key : {"nwc", "no nwc"}, row : WalletRows, val : WalletIds]
Signups ==
    [m : {"signup"}, at : {"sent", "find", "make", "user", "count", "clear", "wallet", "done"},
     user : Users, key : Users, row : WalletRows, val : UserAnswers]
Externals ==
    [m : {"ensureExternalUser"},
     at : {"sent", "find", "make", "user", "count", "clear", "wallet", "bonus", "done"},
     user : Users, key : {""}, row : WalletRows, val : UserAnswers]
UpdateWallets ==
    [m : {"updateWallet"}, at : {"sent", "unset", "update", "done"},
     user : Users, key : {""}, row : WalletRows, val : Plain]
DeleteWallets ==
    [m : {"deleteWallet"}, at : {"sent", "used", "delete", "done"},
     user : Users, key : Nat, row : WalletRows, val : Plain]
PutExperts ==
    [m : {"insertExpert", "updateExpert"},
     at : {"sent", "check", "insertExpert", "updateExpert", "done"},
     user : Users, key : Experts, row : ExpertRows, val : Plain]
DisableExperts ==
    [m : {"setExpertDisabled"}, at : {"sent", "stamp", "disabled", "done"},
     user : Users, key : Experts, row : ExpertRows, val : Plain]
DeleteExperts ==
    [m : {"deleteExpert"}, at : {"sent", "drop expert", "done"},
     user : Users, key : Experts, row : WalletRows, val : Plain]

CommandCalls ==
    OpenCalls \cup UserAddCalls \cup WalletReads \cup ExpertReads \cup ExpertLists
    \cup InsertWallets \cup Signups \cup Externals \cup UpdateWallets \cup DeleteWallets
    \cup PutExperts \cup DisableExperts \cup DeleteExperts

-----------------------------------------------------------------------------
(* The inductive invariant, by what its parts read.                         *)

UsersOK ==
    /\ tables \subseteq {"users", "users_new"}
    /\ users \subseteq UserRows /\ usersNew \subseteq UserRows
    /\ \A u, v \in users : u.pubkey = v.pubkey => u = v
    /\ \A u, v \in usersNew : u.pubkey = v.pubkey => u = v

WalletsOK ==
    /\ made \in Nat
    /\ wallets \subseteq [id : 1..made, name : Names, dflt : BOOLEAN, user : Users]
    /\ \A v, w \in wallets : v.id = w.id \/ v.name = w.name => v = w

ExpertsOK ==
    /\ clock \in Nat /\ made \in Nat /\ top \in Nat
    /\ experts \in [Experts -> [wallet : 0..made, user : Users \cup {Test},
                                disabled : BOOLEAN, at : 0..clock]]
    /\ top <= clock /\ spaced \subseteq Experts

\* A row that is to be written was stamped by time c, and its wallet was one of the first m.
Stamped(k, c, m) ==
    /\ k.at \in {"insertExpert", "updateExpert", "disabled"} => k.row.at <= c
    /\ k.at \in {"insertExpert", "updateExpert"} => k.row.wallet <= m

CallsOK ==
    /\ DOMAIN call = Processes
    /\ call[Server] \in OpenCalls \cup {G!NoCall}
    /\ \A c \in Commands : call[c] \in CommandCalls \cup {G!NoCall}
    /\ \A p \in Processes : call[p] # G!NoCall => Stamped(call[p], clock, made)

\* The methods of a command, as far as the calls that follow depend on them; an update of
\* an expert looks a wallet up with the expert's row in hand.
WalletGets == {"getWalletByName", "getDefaultWallet"}
Suits(j, k) ==
    /\ j.cmd = "signup" => k.m \in {"initDatabase", "signup"}
    /\ j.cmd = "expert create" =>
         k.m \in {"initDatabase", "getWalletByName", "getDefaultWallet", "insertExpert"}
    /\ j.cmd = "expert update" /\ k.m \in WalletGets => k.row \in ExpertRows
    /\ C!Far(j) => k.m \notin {"initDatabase", "insertUser"}

JobsOK ==
    /\ shared \in BOOLEAN /\ srv \in {"down", "starting", "up", "stopped"}
    /\ job \in [Commands -> Jobs[shared] \cup {NoJob}]
    /\ \A c \in Commands : job[c] = NoJob <=> call[c] = G!NoCall
    /\ \A c \in Commands : job[c] # NoJob => Suits(job[c], call[c])

MonitorOK ==
    /\ clock <= MaxClock
    /\ cursor \in 0..(MaxClock + 1) /\ seen \in [Experts -> 0..MaxClock]
    /\ joined \subseteq Users

\* Statements of two requests are not interleaved, and requests do not meet initDatabase.
OneRuns == \A p, q \in Processes : S!Runs(p) /\ S!Runs(q) => p = q
Begins ==
    /\ srv # "starting" => call[Server] = G!NoCall
    /\ srv \in {"down", "starting"} =>
         \A c \in Commands : call[c] # G!NoCall => call[c].at \in {"sent", "done"}

\* What a request that runs has found stays so until it writes.
Ready(p) ==
    /\ G!At(p, "wallet") /\ call[p].row.dflt => \A w \in G!Of(call[p].user) : ~w.dflt
    /\ G!At(p, "update") /\ call[p].row.dflt =>
         \A w \in G!Of(call[p].row.user) : w.dflt => w.id = call[p].row.id
    /\ G!At(p, "insertExpert") \/ G!At(p, "updateExpert") =>
         \E w \in G!Of(call[p].row.user) : w.id = call[p].row.wallet
    /\ G!At(p, "delete") => G!UsedBy(call[p].key) = {}

OneDefault ==
    \A v, w \in wallets : v.user = w.user /\ v.dflt /\ w.dflt => v = w
PaidWallets ==
    \A e \in Experts : G!Exists(e) => \E w \in G!Of(experts[e].user) : w.id = experts[e].wallet

Agree == (\A p \in Processes : Ready(p)) /\ OneDefault /\ PaidWallets

\* Users the server answered, or is about to answer.
SignedUp(c, u) ==
    /\ call[c] # G!NoCall /\ call[c].m = "signup"
    /\ \/ call[c].at \in {"count", "clear", "wallet"} /\ call[c].user = u
       \/ call[c].at = "done" /\ call[c].val = G!Id(u)
Sure == joined \cup {u \in Users : \E c \in Commands : SignedUp(c, u)}
Rows(rs) == {r.pubkey : r \in rs}

\* initDatabase copies all of them before it drops the table.
Kept ==
    /\ "users" \notin tables => G!At(Server, "rename")
    /\ G!At(Server, "copy") => "users_new" \in tables
    /\ G!At(Server, "drop") => "users_new" \in tables /\ usersNew = users
    /\ G!At(Server, "rename") => tables = {"users_new"} /\ Sure \subseteq Rows(usersNew)
    /\ ~G!At(Server, "rename") => Sure \subseteq Rows(users)

Alone == OneRuns /\ Begins /\ Agree /\ (~cut => Kept)

TypeInv == UsersOK /\ WalletsOK /\ ExpertsOK /\ CallsOK /\ JobsOK /\ MonitorOK
IInv == TypeInv /\ (~shared => Alone)

-----------------------------------------------------------------------------
(* The calls that the commands make.                                        *)

GoodJob(j) ==
    /\ j \in [cmd : C!Cmds, user : Users, name : Names, dflt : BOOLEAN, e : Experts,
              via : {"http", "file"}]
    /\ j.cmd = "user add" => j.via = "file"

\* A call that was not begun: nothing was stamped, and a far one was not received.
Early(j, k) ==
    /\ k # G!NoCall
    /\ k.at \notin {"insertExpert", "updateExpert", "disabled", "done"}
    /\ C!Far(j) => k.at = "sent"

\* A job of the constants is one of the commands.
LEMMA JobsAreGood ==
    ASSUME NEW b \in BOOLEAN, NEW j \in Jobs[b]
    PROVE  GoodJob(j) /\ (~b => C!Far(j))
BY PlatformAssumption DEF GoodJob, C!Far

\* What a command asks for is a call of the kind of its method.
LEMMA Asking ==
    ASSUME NEW j, GoodJob(j), NEW key, NEW row, NEW m, NEW k \in C!Ask(j, m, key, row),
           row \in (IF m \in {"insertExpert", "updateExpert", "setExpertDisabled"}
                    THEN ExpertRows ELSE WalletRows)
    PROVE  /\ m \in {"getWalletByName", "getDefaultWallet"} /\ key \in Names \cup {""}
                => k \in WalletReads /\ Early(j, k)
           /\ m = "getExpert" /\ key \in Experts => k \in ExpertReads /\ Early(j, k)
           /\ m = "listExperts" /\ key \in Experts => k \in ExpertLists /\ Early(j, k)
           /\ m = "insertWallet" /\ key \in {"nwc", "no nwc"} => k \in InsertWallets /\ Early(j, k)
           /\ m = "signup" /\ key \in Users => k \in Signups /\ Early(j, k)
           /\ m = "ensureExternalUser" /\ key = "" => k \in Externals /\ Early(j, k)
           /\ m = "updateWallet" /\ key = "" => k \in UpdateWallets /\ Early(j, k)
           /\ m = "deleteWallet" /\ key \in Nat => k \in DeleteWallets /\ Early(j, k)
           /\ m \in {"insertExpert", "updateExpert"} /\ key \in Experts
                => k \in PutExperts /\ Early(j, k)
           /\ m = "setExpertDisabled" /\ key \in Experts => k \in DisableExperts /\ Early(j, k)
           /\ m = "deleteExpert" /\ key \in Experts => k \in DeleteExperts /\ Early(j, k)
<1> DEFINE q == [m |-> m, at |-> "sent", user |-> j.user, key |-> key, row |-> row,
                 val |-> [is |-> "null"]]
           at == IF C!Far(j) THEN "sent" ELSE C!S!Route(q)
<1>1. /\ k = [m |-> m, at |-> at, user |-> j.user, key |-> key, row |-> row, val |-> [is |-> "null"]]
      /\ C!Far(j) => at = "sent"
  <2>1. k = IF C!Far(j) THEN q ELSE [q EXCEPT !.at = C!S!Route(q)]
    BY DEF C!Ask, C!createDBClientForCommands, C!G!Call, C!G!Null
  <2> QED  BY <2>1
<1>2. j.user \in Users
  BY DEF GoodJob
<1>3. /\ m \in {"getWalletByName", "getDefaultWallet", "getExpert", "listExperts"} => at \in {"sent", "read"}
      /\ m = "insertWallet" => at \in {"sent", "make", "count"}
      /\ m \in {"signup", "ensureExternalUser"} => at \in {"sent", "find"}
      /\ m = "updateWallet" => at \in {"sent", "unset", "update"}
      /\ m = "deleteWallet" => at \in {"sent", "used"}
      /\ m \in {"insertExpert", "updateExpert"} => at \in {"sent", "check"}
      /\ m = "setExpertDisabled" => at \in {"sent", "stamp"}
      /\ m = "deleteExpert" => at \in {"sent", "drop expert"}
  <2>1. q.m = m /\ q.key = key
    OBVIOUS
  <2> HIDE DEF q
  <2> QED
    BY <2>1 DEF C!S!Route, C!S!walletReads, C!S!walletEdits, C!S!expertReads, C!S!expertWrites,
           C!S!expertEdits, C!S!UserMethods
<1>4. [is |-> "null"] \in Plain
  BY DEF Plain
<1> HIDE DEF at
<1>5. k # G!NoCall
  BY <1>1 DEF G!NoCall
<1> QED
  BY <1>1, <1>2, <1>3, <1>4, <1>5 DEF WalletReads, ExpertReads, ExpertLists, InsertWallets, Signups, Externals,
     UpdateWallets, DeleteWallets, PutExperts, DisableExperts, DeleteExperts, Early,
     WalletAnswers, ExpertAnswers, ListAnswers, WalletIds, UserAnswers

\* A wallet is looked up with the row of an expert in hand.
LEMMA AskingHeld ==
    ASSUME NEW j, GoodJob(j), NEW row \in ExpertRows, NEW m \in WalletGets, NEW key \in Names \cup {""},
           NEW k \in C!Ask(j, m, key, row)
    PROVE  k \in WalletReads /\ Early(j, k) /\ k.row = row
<1> DEFINE q == [m |-> m, at |-> "sent", user |-> j.user, key |-> key, row |-> row,
                 val |-> [is |-> "null"]]
           at == IF C!Far(j) THEN "sent" ELSE "read"
<1>1. k = IF C!Far(j) THEN q ELSE [q EXCEPT !.at = C!S!Route(q)]
  BY DEF C!Ask, C!createDBClientForCommands, C!G!Call, C!G!Null
<1>2. C!S!Route(q) = "read"
  <2>1. q.m \in WalletGets
    OBVIOUS
  <2> HIDE DEF q
  <2> QED
    BY <2>1 DEF WalletGets, C!S!Route, C!S!walletReads, C!S!walletEdits, C!S!expertReads,
       C!S!expertWrites, C!S!expertEdits, C!S!UserMethods
<1>3. k = [m |-> m, at |-> at, user |-> j.user, key |-> key, row |-> row, val |-> [is |-> "null"]]
  BY <1>1, <1>2
<1>4. j.user \in Users /\ [is |-> "null"] \in WalletAnswers
  BY DEF GoodJob, WalletAnswers, Plain
<1>5. at \in {"sent", "read"} /\ (C!Far(j) => at = "sent")
  OBVIOUS
<1> HIDE DEF at
<1>6. k # G!NoCall
  BY <1>3 DEF G!NoCall
<1>7. k \in WalletReads
  BY <1>3, <1>4, <1>5 DEF WalletReads, WalletGets
<1> QED  BY <1>3, <1>5, <1>6, <1>7 DEF Early

\* A call that a command makes next.
Begun(j, k) == k \in CommandCalls /\ Early(j, k) /\ Suits(j, k)

\* The rows of requests without one.
LEMMA EmptyRows ==
    /\ C!G!NoWallet \in WalletRows
    /\ \A j : GoodJob(j) => C!WalletOf(j) \in WalletRows
    /\ \A j, id : GoodJob(j) /\ id \in Nat => C!ExpertOf(j, id) \in ExpertRows
    /\ \A b \in BOOLEAN : C!Disabled(b) \in ExpertRows
BY PlatformAssumption DEF C!G!NoWallet, WalletRows, ExpertRows, GoodJob, C!WalletOf, C!ExpertOf,
   C!Disabled, C!G!NoExpert

\* The first calls of a command.
LEMMA FirstCalls ==
    ASSUME NEW j, GoodJob(j), NEW k \in C!First(j)
    PROVE  Begun(j, k)
<1> USE EmptyRows DEF C!First, C!Plain, Begun, CommandCalls, Suits
<1>0. j.cmd \in C!Cmds /\ j.user \in Users /\ j.name \in Names /\ j.e \in Experts
  BY DEF GoodJob
<1>1. CASE j.cmd \in {"wallet add", "wallet create", "wallet update", "wallet delete"}
  <2>1. k \in C!Ask(j, "getWalletByName", j.name, C!G!NoWallet)
    BY <1>1
  <2>2. k \in WalletReads /\ Early(j, k)
    BY <1>0, <2>1, Asking
  <2> QED  BY <1>1, <2>2 DEF WalletReads
<1>2. CASE j.cmd = "expert create"
  <2>1. \E m \in {"getWalletByName", "getDefaultWallet"}, key \in Names \cup {""} :
          k \in C!Ask(j, m, key, C!G!NoWallet)
    BY <1>0, <1>2 DEF C!getWalletByNameOrDefault
  <2>2. k \in WalletReads /\ Early(j, k)
    BY <2>1, Asking
  <2> QED  BY <1>2, <2>2 DEF WalletReads
<1>3. CASE j.cmd \in {"expert update", "expert delete"}
  <2>1. k \in C!Ask(j, "getExpert", j.e, C!G!NoWallet)
    BY <1>3
  <2>2. k \in ExpertReads /\ Early(j, k)
    BY <1>0, <2>1, Asking
  <2> QED  BY <1>3, <2>2 DEF ExpertReads, WalletGets
<1>4. CASE j.cmd = "openrouter"
  <2>1. k \in C!Ask(j, "getDefaultWallet", "", C!G!NoWallet)
    BY <1>4
  <2>2. k \in WalletReads /\ Early(j, k)
    BY <1>0, <2>1, Asking
  <2> QED  BY <1>4, <2>2 DEF WalletReads
<1>5. CASE j.cmd = "refresh"
  <2>1. k \in C!Ask(j, "listExperts", j.e, [C!G!NoWallet EXCEPT !.id = 1])
    BY <1>5
  <2>2. [C!G!NoWallet EXCEPT !.id = 1] \in WalletRows
    BY DEF WalletRows
  <2>3. k \in ExpertLists /\ Early(j, k)
    BY <1>0, <2>1, <2>2, Asking
  <2> QED  BY <1>5, <2>3 DEF ExpertLists
<1>6. CASE j.cmd = "insert"
  <2>1. k \in C!Ask(j, "insertWallet", "no nwc", C!WalletOf(j))
    BY <1>6
  <2>2. k \in InsertWallets /\ Early(j, k)
    BY <1>0, <2>1, Asking
  <2> QED  BY <1>6, <2>2 DEF InsertWallets
<1>7. CASE j.cmd = "user add"
  <2>1. k = [m |-> "insertUser", at |-> "insert user", user |-> j.user, key |-> j.user,
             row |-> C!G!NoWallet, val |-> [is |-> "null"]]
    BY <1>7 DEF C!G!Call, C!G!Null
  <2>2. ~C!Far(j)
    BY <1>7 DEF GoodJob, C!Far
  <2>3. k \in UserAddCalls
    BY <1>0, <2>1 DEF UserAddCalls, UserAnswers, Plain
  <2>4. Early(j, k)
    BY <2>1, <2>2 DEF Early, G!NoCall
  <2> QED  BY <1>7, <2>1, <2>2, <2>3, <2>4
<1>8. CASE j.cmd \in {"signup", "external"}
  <2> DEFINE row == [C!G!NoWallet EXCEPT !.dflt = TRUE]
  <2>1. \/ j.cmd = "signup" /\ k \in C!Ask(j, "signup", j.user, row)
        \/ j.cmd = "external" /\ k \in C!Ask(j, "ensureExternalUser", "", row)
    BY <1>8
  <2>2. row \in WalletRows
    BY DEF WalletRows
  <2> HIDE DEF row
  <2>3. \/ j.cmd = "signup" /\ k \in Signups /\ Early(j, k)
        \/ j.cmd = "external" /\ k \in Externals /\ Early(j, k)
    BY <1>0, <2>1, <2>2, Asking
  <2> QED  BY <2>3 DEF Signups, Externals
<1> QED  BY <1>0, <1>1, <1>2, <1>3, <1>4, <1>5, <1>6, <1>7, <1>8 DEF C!Cmds

\* What a command learns from a call.
LEMMA Answers ==
    ASSUME NEW j, NEW k \in CommandCalls, NEW v, v = C!Result(j, k)
    PROVE  /\ k.m \in {"getWalletByName", "getDefaultWallet"} /\ v.is = "row" => v.row \in WalletRows
           /\ k.m = "getExpert" /\ v.is = "row" => v.row \in ExpertRows
           /\ k.m = "listExperts" /\ v.is = "rows" =>
                 v.rows \in UNION {[D -> ExpertRows] : D \in SUBSET Experts}
           /\ k.m = "signup" /\ v.is = "id" => v = k.val /\ v.id \in Users
<1>1. CASE k.m \in {"getWalletByName", "getDefaultWallet", "getExpert", "listExperts", "signup"}
  <2>1. v = k.val \/ v = [is |-> "throws"]
    BY <1>1 DEF C!Result, C!Remote, C!Local, C!walletRead, C!expertRead, C!expertList, C!walletInsert,
       C!signup, C!Or, C!G!Throws, C!S!UserMethods
  <2>2. k \in WalletReads \cup ExpertReads \cup ExpertLists \cup Signups
    BY <1>1 DEF CommandCalls, OpenCalls, UserAddCalls, InsertWallets, Externals, UpdateWallets,
       DeleteWallets, PutExperts, DisableExperts, DeleteExperts, WalletReads, ExpertReads, ExpertLists, Signups
  <2>3. CASE k \in WalletReads
    <3>1. k.val \in WalletAnswers /\ k.m \in {"getWalletByName", "getDefaultWallet"}
      BY <2>3 DEF WalletReads
    <3> QED  BY <2>1, <3>1 DEF WalletAnswers, Plain
  <2>4. CASE k \in ExpertReads
    <3>1. k.val \in ExpertAnswers /\ k.m = "getExpert"
      BY <2>4 DEF ExpertReads
    <3> QED  BY <2>1, <3>1 DEF ExpertAnswers, Plain
  <2>5. CASE k \in ExpertLists
    <3>1. k.val \in ListAnswers /\ k.m = "listExperts"
      BY <2>5 DEF ExpertLists
    <3> QED  BY <2>1, <3>1 DEF ListAnswers, Plain
  <2>6. CASE k \in Signups
    <3>1. k.val \in UserAnswers /\ k.m = "signup"
      BY <2>6 DEF Signups
    <3> QED  BY <2>1, <3>1 DEF UserAnswers, Plain
  <2> QED  BY <2>2, <2>3, <2>4, <2>5, <2>6
<1> QED  BY <1>1

\* The calls that follow one another in a command.
LEMMA NextCalls ==
    ASSUME NEW j, GoodJob(j), NEW k \in CommandCalls, Suits(j, k), NEW v, v = C!Result(j, k),
           NEW n \in C!Follows(j, k, v)
    PROVE  n = G!NoCall \/ Begun(j, n)
<1> DEFINE Goal == n = G!NoCall \/ Begun(j, n)
<1> USE EmptyRows DEF C!End, C!Plain, C!HasRow, Begun, CommandCalls, Suits
<1>0. /\ j.cmd \in C!Cmds /\ j.user \in Users /\ j.name \in Names /\ j.e \in Experts
      /\ j.dflt \in BOOLEAN /\ C!G!NoCall = G!NoCall
  BY DEF GoodJob, C!G!NoCall, G!NoCall
<1>1. CASE k.m = "initDatabase"
  BY <1>0, <1>1, FirstCalls DEF C!Follows
<1>2. CASE k.m # "initDatabase" /\ j.cmd \in {"wallet add", "wallet create"}
  <2>1. n = G!NoCall \/ n \in C!Ask(j, "insertWallet", "nwc", C!WalletOf(j))
    BY <1>0, <1>2 DEF C!Follows, C!executeAddWalletCommand, C!executeCreateWalletCommand
  <2>2. n = G!NoCall \/ (n \in InsertWallets /\ Early(j, n))
    BY <2>1, Asking
  <2> QED  BY <1>2, <2>2 DEF InsertWallets
<1>3. CASE k.m # "initDatabase" /\ j.cmd = "wallet update"
  <2>1. n = G!NoCall \/ (/\ k.m = "getWalletByName" /\ v.is = "row"
                         /\ n \in C!Ask(j, "updateWallet", "", [v.row EXCEPT !.dflt = j.dflt]))
    BY <1>0, <1>3 DEF C!Follows, C!executeUpdateWalletCommand
  <2>2. ASSUME k.m = "getWalletByName", v.is = "row"
        PROVE  [v.row EXCEPT !.dflt = j.dflt] \in WalletRows
    <3>1. v.row \in WalletRows
      BY <2>2, Answers
    <3> QED  BY <1>0, <3>1 DEF WalletRows
  <2>3. ASSUME NEW row \in WalletRows, n \in C!Ask(j, "updateWallet", "", row)
        PROVE  n \in UpdateWallets /\ Early(j, n)
    BY <2>3, Asking
  <2>4. n = G!NoCall \/ (n \in UpdateWallets /\ Early(j, n))
    BY <2>1, <2>2, <2>3
  <2> QED  BY <1>3, <2>4 DEF UpdateWallets
<1>4. CASE k.m # "initDatabase" /\ j.cmd = "wallet delete"
  <2>1. n = G!NoCall \/ (/\ k.m = "getWalletByName" /\ v.is = "row"
                         /\ n \in C!Ask(j, "deleteWallet", v.row.id, C!G!NoWallet))
    BY <1>0, <1>4 DEF C!Follows, C!executeDeleteWalletCommand
  <2>2. k.m = "getWalletByName" /\ v.is = "row" => v.row.id \in Nat
    BY Answers DEF WalletRows
  <2>3. n = G!NoCall \/ (n \in DeleteWallets /\ Early(j, n))
    BY <2>1, <2>2, Asking
  <2> QED  BY <1>4, <2>3 DEF DeleteWallets
<1>5. CASE k.m # "initDatabase" /\ j.cmd = "expert create"
  <2>1. n = G!NoCall \/ (/\ k.m \in {"getWalletByName", "getDefaultWallet"} /\ v.is = "row"
                         /\ n \in C!Ask(j, "insertExpert", j.e, C!ExpertOf(j, v.row.id)))
    BY <1>0, <1>5 DEF C!Follows, C!createExpert
  <2>2. k.m \in {"getWalletByName", "getDefaultWallet"} /\ v.is = "row"
          => C!ExpertOf(j, v.row.id) \in ExpertRows
    BY Answers DEF WalletRows
  <2>3. n = G!NoCall \/ (n \in PutExperts /\ n.m = "insertExpert" /\ Early(j, n))
    <3> DEFINE row == C!ExpertOf(j, v.row.id)
    <3>1. ASSUME n \in C!Ask(j, "insertExpert", j.e, row) PROVE n.m = "insertExpert"
      <4> DEFINE q == [m |-> "insertExpert", at |-> "sent", user |-> j.user, key |-> j.e, row |-> row,
                       val |-> [is |-> "null"]]
      <4>1. n = IF C!Far(j) THEN q ELSE [q EXCEPT !.at = C!S!Route(q)]
        BY <3>1 DEF C!Ask, C!createDBClientForCommands, C!G!Call, C!G!Null
      <4> QED  BY <4>1
    <3> HIDE DEF row
    <3>2. ASSUME n \in C!Ask(j, "insertExpert", j.e, row), row \in ExpertRows
          PROVE  n \in PutExperts /\ Early(j, n)
      BY <1>0, <3>2, Asking
    <3> QED  BY <2>1, <2>2, <3>1, <3>2 DEF row
  <2> QED  BY <1>5, <2>3 DEF PutExperts
<1>6. CASE k.m # "initDatabase" /\ j.cmd = "expert update"
  <2>1. \/ n = G!NoCall
        \/ k.m = "getExpert" /\ v.is = "row" /\ n \in C!Ask(j, "updateExpert", j.e, v.row)
        \/ /\ k.m = "getExpert" /\ v.is = "row"
           /\ \E m \in {"getWalletByName", "getDefaultWallet"}, key \in Names \cup {""} :
                n \in C!Ask(j, m, key, v.row)
        \/ /\ k.m \in {"getWalletByName", "getDefaultWallet"} /\ v.is = "row"
           /\ n \in C!Ask(j, "updateExpert", j.e, [k.row EXCEPT !.wallet = v.row.id])
    BY <1>0, <1>6 DEF C!Follows, C!updateExpert, C!getWalletByNameOrDefault
  <2>2. CASE n = G!NoCall
    BY <2>2
  <2>3. CASE k.m = "getExpert" /\ v.is = "row" /\ n \in C!Ask(j, "updateExpert", j.e, v.row)
    <3>1. n \in PutExperts /\ Early(j, n)
      BY <1>0, <2>3, Answers, Asking
    <3> QED  BY <1>6, <3>1 DEF PutExperts, WalletGets
  <2>4. CASE /\ k.m = "getExpert" /\ v.is = "row"
             /\ \E m \in {"getWalletByName", "getDefaultWallet"}, key \in Names \cup {""} :
                  n \in C!Ask(j, m, key, v.row)
    <3>1. v.row \in ExpertRows
      BY <2>4, Answers
    <3>2. ASSUME NEW m \in WalletGets, NEW key \in Names \cup {""}, n \in C!Ask(j, m, key, v.row)
          PROVE  n \in WalletReads /\ Early(j, n) /\ n.row = v.row
      BY ONLY GoodJob(j), <3>1, <3>2, AskingHeld, Zenon
    <3>3. n \in WalletReads /\ Early(j, n) /\ n.row \in ExpertRows
      BY <2>4, <3>1, <3>2 DEF WalletGets
    <3> QED  BY <1>6, <3>3 DEF WalletReads
  <2>5. CASE /\ k.m \in {"getWalletByName", "getDefaultWallet"} /\ v.is = "row"
             /\ n \in C!Ask(j, "updateExpert", j.e, [k.row EXCEPT !.wallet = v.row.id])
    <3>1. k.row \in ExpertRows
      BY <1>6, <2>5 DEF WalletGets
    <3>2. v.row.id \in Nat
      BY <2>5, Answers DEF WalletRows
    <3>3. [k.row EXCEPT !.wallet = v.row.id] \in ExpertRows
      BY <3>1, <3>2 DEF ExpertRows
    <3>4. n \in PutExperts /\ Early(j, n)
      BY <1>0, <2>5, <3>3, Asking
    <3> QED  BY <1>6, <3>4 DEF PutExperts, WalletGets
  <2> QED  BY <2>1, <2>2, <2>3, <2>4, <2>5
<1>7. CASE k.m # "initDatabase" /\ j.cmd = "expert delete"
  <2>1. n = G!NoCall \/ n \in C!Ask(j, "deleteExpert", j.e, C!G!NoWallet)
    BY <1>0, <1>7 DEF C!Follows, C!deleteExpert
  <2>2. n = G!NoCall \/ (n \in DeleteExperts /\ Early(j, n))
    BY <1>0, <2>1, Asking
  <2> QED  BY <1>7, <2>2 DEF DeleteExperts
<1>8. ASSUME C!Listed(j, v), k.m = "listExperts"
      PROVE  v.rows[j.e] \in ExpertRows
  <2>1. v.rows \in UNION {[D -> ExpertRows] : D \in SUBSET Experts} /\ j.e \in DOMAIN v.rows
    BY <1>8, Answers DEF C!Listed
  <2>2. PICK D \in SUBSET Experts : v.rows \in [D -> ExpertRows]
    BY <2>1
  <2> QED  BY <2>1, <2>2
<1>9. ASSUME k.m = "listExperts", n \in C!createOpenRouterExpert(j, k)
      PROVE  n \in PutExperts /\ Early(j, n)
  <2>1. k.row.id \in Nat
    <3>1. k.row \in WalletRows
      BY <1>9 DEF OpenCalls, UserAddCalls, InsertWallets, Externals, UpdateWallets, DeleteWallets,
         PutExperts, DisableExperts, DeleteExperts, WalletReads, ExpertReads, ExpertLists, Signups
    <3> QED  BY <3>1 DEF WalletRows
  <2> QED  BY <1>0, <1>9, <2>1, Asking DEF C!createOpenRouterExpert
<1>10. ASSUME NEW b \in BOOLEAN, n \in C!Ask(j, "setExpertDisabled", j.e, C!Disabled(b))
       PROVE  n \in DisableExperts /\ Early(j, n)
  BY <1>0, <1>10, Asking
<1>11. CASE k.m # "initDatabase" /\ j.cmd = "openrouter"
  <2>1. \/ n = G!NoCall
        \/ k.m = "getDefaultWallet" /\ v.is = "row" /\ n \in C!Ask(j, "listExperts", j.e, v.row)
        \/ k.m = "listExperts" /\ n \in C!createOpenRouterExpert(j, k)
        \/ n \in C!Ask(j, "setExpertDisabled", j.e, C!Disabled(TRUE))
        \/ /\ k.m = "listExperts" /\ C!Listed(j, v)
           /\ n \in C!Ask(j, "updateExpert", j.e, [v.rows[j.e] EXCEPT !.disabled = FALSE])
    BY <1>0, <1>11 DEF C!Follows, C!manageOpenRouterExperts, C!Disable, C!Unchanged
  <2>2. CASE n = G!NoCall
    BY <2>2
  <2>3. CASE k.m = "getDefaultWallet" /\ v.is = "row" /\ n \in C!Ask(j, "listExperts", j.e, v.row)
    <3>1. n \in ExpertLists /\ Early(j, n)
      BY <1>0, <2>3, Answers, Asking
    <3> QED  BY <1>11, <3>1 DEF ExpertLists
  <2>4. CASE k.m = "listExperts" /\ n \in C!createOpenRouterExpert(j, k)
    BY <1>9, <1>11, <2>4 DEF PutExperts
  <2>5. CASE n \in C!Ask(j, "setExpertDisabled", j.e, C!Disabled(TRUE))
    BY <1>10, <1>11, <2>5 DEF DisableExperts
  <2>6. CASE /\ k.m = "listExperts" /\ C!Listed(j, v)
             /\ n \in C!Ask(j, "updateExpert", j.e, [v.rows[j.e] EXCEPT !.disabled = FALSE])
    <3>1. [v.rows[j.e] EXCEPT !.disabled = FALSE] \in ExpertRows
      BY <1>8, <2>6 DEF ExpertRows
    <3>2. n \in PutExperts /\ Early(j, n)
      BY <1>0, <2>6, <3>1, Asking
    <3> QED  BY <1>11, <3>2 DEF PutExperts
  <2> QED  BY <2>1, <2>2, <2>3, <2>4, <2>5, <2>6
<1>12. CASE k.m # "initDatabase" /\ j.cmd = "refresh"
  <2>1. \/ n = G!NoCall
        \/ k.m = "listExperts" /\ n \in C!createOpenRouterExpert(j, k)
        \/ n \in C!Ask(j, "setExpertDisabled", j.e, C!Disabled(TRUE))
        \/ n \in C!Ask(j, "setExpertDisabled", j.e, C!Disabled(FALSE))
    BY <1>0, <1>12 DEF C!Follows, C!refreshExperts, C!Disable
  <2>2. n = G!NoCall \/ (n \in PutExperts \cup DisableExperts /\ Early(j, n))
    BY <1>9, <1>10, <2>1
  <2> QED  BY <1>12, <2>2 DEF PutExperts, DisableExperts
<1>13. CASE k.m # "initDatabase" /\ j.cmd \in {"user add", "signup", "external", "insert"}
  BY <1>0, <1>13 DEF C!Follows
<1> QED  BY <1>0, <1>1, <1>2, <1>3, <1>4, <1>5, <1>6, <1>7, <1>11, <1>12, <1>13 DEF C!Cmds

-----------------------------------------------------------------------------
(* Where a call is in its method, and which method that is.                 *)

LEMMA Methods ==
    ASSUME NEW k \in CommandCalls
    PROVE  /\ k.m = "initDatabase" => k \in OpenCalls
           /\ k.m = "insertUser" => k \in UserAddCalls
           /\ k.m \in {"getWalletByName", "getDefaultWallet"} => k \in WalletReads
           /\ k.m = "getExpert" => k \in ExpertReads
           /\ k.m = "listExperts" => k \in ExpertLists
           /\ k.m = "insertWallet" => k \in InsertWallets
           /\ k.m = "signup" => k \in Signups
           /\ k.m = "ensureExternalUser" => k \in Externals
           /\ k.m = "updateWallet" => k \in UpdateWallets
           /\ k.m = "deleteWallet" => k \in DeleteWallets
           /\ k.m \in {"insertExpert", "updateExpert"} => k \in PutExperts
           /\ k.m = "setExpertDisabled" => k \in DisableExperts
           /\ k.m = "deleteExpert" => k \in DeleteExperts
           /\ k # G!NoCall
<1> USE DEF OpenCalls, UserAddCalls, WalletReads, ExpertReads, ExpertLists, InsertWallets,
    Signups, Externals, UpdateWallets, DeleteWallets, PutExperts, DisableExperts, DeleteExperts
<1>1. k.m # "none"
  BY DEF CommandCalls
<1>2. k # G!NoCall
  BY <1>1 DEF G!NoCall
<1> QED
  BY <1>2 DEF CommandCalls

LEMMA Places ==
    ASSUME NEW k \in CommandCalls
    PROVE  /\ k.at \in {"open", "test", "untest", "create", "copy", "drop", "rename"} => k \in OpenCalls
           /\ k.at \in {"insert user", "list users"} => k \in UserAddCalls
           /\ k.at = "read" => k \in WalletReads \cup ExpertReads \cup ExpertLists
           /\ k.at \in {"make", "count", "clear", "wallet"} =>
                 k \in InsertWallets \cup Signups \cup Externals
           /\ k.at \in {"find", "user"} => k \in Signups \cup Externals
           /\ k.at = "bonus" => k \in Externals
           /\ k.at \in {"unset", "update"} => k \in UpdateWallets
           /\ k.at \in {"used", "delete"} => k \in DeleteWallets
           /\ k.at \in {"check", "insertExpert", "updateExpert"} => k \in PutExperts
           /\ k.at \in {"stamp", "disabled"} => k \in DisableExperts
           /\ k.at = "drop expert" => k \in DeleteExperts
BY DEF CommandCalls, OpenCalls, UserAddCalls, WalletReads, ExpertReads, ExpertLists, InsertWallets,
   Signups, Externals, UpdateWallets, DeleteWallets, PutExperts, DisableExperts, DeleteExperts

\* The call of a process is one of a command, or of the server.
LEMMA CallOf ==
    ASSUME CallsOK, NEW p \in Processes, call[p] # G!NoCall
    PROVE  /\ call[p] \in CommandCalls
           /\ p = Server => call[p] \in OpenCalls
           /\ p # Server => p \in Commands
           /\ Stamped(call[p], clock, made)
BY DEF CallsOK, CommandCalls, Processes

\* A step inside a method keeps the calls and the jobs in order.
Moves(p, k) ==
    /\ call' = [call EXCEPT ![p] = k]
    /\ call[p] # G!NoCall
    /\ k \in CommandCalls /\ k.m = call[p].m
    /\ k.m \in WalletGets => k.row = call[p].row
    /\ Stamped(k, clock', made')

LEMMA CallsMove ==
    ASSUME TypeInv, NEW p \in Processes, NEW k, Moves(p, k),
           clock' \in Nat, made' \in Nat, clock <= clock', made <= made'
    PROVE  CallsOK'
<1>1. DOMAIN call' = Processes /\ call'[p] = k /\ \A q \in Processes \ {p} : call'[q] = call[q]
  BY DEF TypeInv, CallsOK, Moves
<1>2. call'[Server] \in OpenCalls \cup {G!NoCall}
  <2>1. CASE p = Server
    <3>1. call[p] \in OpenCalls
      BY <2>1 DEF TypeInv, CallsOK, Moves
    <3>2. k.m = "initDatabase"
      BY <3>1 DEF OpenCalls, Moves
    <3> QED  BY <1>1, <2>1, <3>2, Methods DEF Moves
  <2>2. CASE p # Server
    BY <1>1, <2>2 DEF TypeInv, CallsOK, Processes
  <2> QED  BY <2>1, <2>2
<1>3. ASSUME NEW c \in Commands PROVE call'[c] \in CommandCalls \cup {G!NoCall}
  BY <1>1 DEF TypeInv, CallsOK, Moves, Processes
<1>4. ASSUME NEW q \in Processes, call'[q] # G!NoCall PROVE Stamped(call'[q], clock', made')
  <2>1. CASE q = p
    BY <1>1, <2>1 DEF Moves
  <2>2. CASE q # p
    <3>1. call'[q] = call[q] /\ call[q] # G!NoCall
      BY <1>1, <1>4, <2>2
    <3>2. Stamped(call[q], clock, made) /\ call[q] \in CommandCalls
      BY <3>1, CallOf DEF TypeInv
    <3>3. call[q].at \in {"insertExpert", "updateExpert", "disabled"} =>
             call[q].row.at \in Nat /\ call[q].row.wallet \in Nat
      BY <3>2, Places DEF PutExperts, DisableExperts, ExpertRows
    <3>4. clock \in Nat /\ made \in Nat
      BY DEF TypeInv, ExpertsOK
    <3> QED  BY <3>1, <3>2, <3>3, <3>4 DEF Stamped
  <2> QED  BY <2>1, <2>2
<1> QED  BY <1>1, <1>2, <1>3, <1>4 DEF CallsOK, G!NoCall

LEMMA JobsMove ==
    ASSUME TypeInv, NEW p \in Processes, NEW k, Moves(p, k), UNCHANGED <<job, shared>>,
           srv' \in {"down", "starting", "up", "stopped"}
    PROVE  JobsOK'
<1>1. call'[p] = k /\ \A q \in Processes \ {p} : call'[q] = call[q]
  BY DEF TypeInv, CallsOK, Moves
<1>2. /\ k # G!NoCall /\ call[p] # G!NoCall /\ k.m = call[p].m
      /\ k.m \in WalletGets => k.row = call[p].row
  BY Methods DEF Moves
<1>3. ASSUME NEW c \in Commands
      PROVE  /\ call'[c] = G!NoCall <=> call[c] = G!NoCall
             /\ call[c] # G!NoCall => call'[c].m = call[c].m
             /\ call[c] # G!NoCall /\ call[c].m \in WalletGets => call'[c].row = call[c].row
  BY <1>1, <1>2 DEF Processes
<1>4. job' \in [Commands -> Jobs[shared'] \cup {NoJob}]
  BY DEF TypeInv, JobsOK
<1>5. ASSUME NEW c \in Commands PROVE job'[c] = NoJob <=> call'[c] = G!NoCall
  BY <1>3 DEF TypeInv, JobsOK
<1>6. ASSUME NEW c \in Commands, job'[c] # NoJob PROVE Suits(job'[c], call'[c])
  BY <1>3, <1>6 DEF TypeInv, JobsOK, Suits, C!Far
<1> QED  BY <1>4, <1>5, <1>6 DEF JobsOK, TypeInv, G!NoCall

-----------------------------------------------------------------------------
(* The calls after a step.                                                  *)

Gone(k, at) == [k EXCEPT !.at = at]
Returned(k, v) == [k EXCEPT !.at = "done", !.val = v]
To(p, k) == call' = [call EXCEPT ![p] = k]

LEMMA Steps ==
    ASSUME NEW p
    PROVE  /\ \A at : G!Goes(p, at) => To(p, Gone(call[p], at))
           /\ \A v : G!Returns(p, v) => To(p, Returned(call[p], v))
           /\ \A at : S!G!Goes(p, at) => To(p, Gone(call[p], at))
           /\ \A v : S!G!Returns(p, v) => To(p, Returned(call[p], v))
           /\ \A v : C!G!Returns(p, v) => To(p, Returned(call[p], v))
           /\ \A s : S!Refuses(p, s) => To(p, Returned(call[p], [is |-> s]))
BY DEF G!Goes, G!Returns, S!G!Goes, S!G!Returns, C!G!Returns, S!Refuses, S!Status,
   To, Gone, Returned

LEMMA Values ==
    /\ {G!True, G!False, G!Null, G!Throws, S!G!Throws, S!G!True, [is |-> "403"], [is |-> "503"], [is |-> "broken"]}
         \subseteq Plain
    /\ \A b \in BOOLEAN : G!Bool(b) \in Plain
    /\ \A u \in Users : {G!Id(u), S!G!Id(u), C!G!Id(u)} \subseteq UserAnswers
    /\ \A i \in Nat : G!Id(i) \in WalletIds
    /\ Plain \subseteq WalletAnswers /\ Plain \subseteq ExpertAnswers /\ Plain \subseteq ListAnswers
    /\ Plain \subseteq UserAnswers /\ Plain \subseteq WalletIds
BY DEF G!True, G!False, G!Null, G!Throws, S!G!Throws, S!G!True, Plain, G!Bool, G!Id, S!G!Id, C!G!Id, WalletAnswers,
   ExpertAnswers, ListAnswers, UserAnswers, WalletIds

\* A call stays one of its method.
LEMMA Stays ==
    ASSUME NEW k \in CommandCalls
    PROVE  /\ \A at : Gone(k, at).m = k.m /\ Gone(k, at).at = at /\ Gone(k, at).row = k.row
           /\ \A v : Returned(k, v).m = k.m /\ Returned(k, v).at = "done" /\ Returned(k, v).row = k.row
           /\ \A v \in Plain : Returned(k, v) \in CommandCalls
<1>1. k = [m |-> k.m, at |-> k.at, user |-> k.user, key |-> k.key, row |-> k.row, val |-> k.val]
  BY DEF CommandCalls, OpenCalls, UserAddCalls, WalletReads, ExpertReads, ExpertLists, InsertWallets,
     Signups, Externals, UpdateWallets, DeleteWallets, PutExperts, DisableExperts, DeleteExperts
<1>2. ASSUME NEW v \in Plain PROVE Returned(k, v) \in CommandCalls
  <2>1. CASE k \in OpenCalls
    BY <2>1 DEF OpenCalls, CommandCalls, Returned
  <2>2. CASE k \in UserAddCalls
    BY <2>2, Values DEF UserAddCalls, CommandCalls, Returned
  <2>3. CASE k \in WalletReads
    BY <2>3, Values DEF WalletReads, CommandCalls, Returned
  <2>4. CASE k \in ExpertReads
    BY <2>4, Values DEF ExpertReads, CommandCalls, Returned
  <2>5. CASE k \in ExpertLists
    BY <2>5, Values DEF ExpertLists, CommandCalls, Returned
  <2>6. CASE k \in InsertWallets
    BY <2>6, Values DEF InsertWallets, CommandCalls, Returned
  <2>7. CASE k \in Signups
    BY <2>7, Values DEF Signups, CommandCalls, Returned
  <2>8. CASE k \in Externals
    BY <2>8, Values DEF Externals, CommandCalls, Returned
  <2>9. CASE k \in UpdateWallets
    BY <2>9, Values DEF UpdateWallets, CommandCalls, Returned
  <2>10. CASE k \in DeleteWallets
    BY <2>10, Values DEF DeleteWallets, CommandCalls, Returned
  <2>11. CASE k \in PutExperts
    BY <2>11, Values DEF PutExperts, CommandCalls, Returned
  <2>12. CASE k \in DisableExperts
    BY <2>12, Values DEF DisableExperts, CommandCalls, Returned
  <2>13. CASE k \in DeleteExperts
    BY <2>13, Values DEF DeleteExperts, CommandCalls, Returned
  <2> QED  BY <2>1, <2>2, <2>3, <2>4, <2>5, <2>6, <2>7, <2>8, <2>9, <2>10, <2>11, <2>12, <2>13 DEF CommandCalls
<1> QED  BY <1>1, <1>2 DEF Gone, Returned

\* Where a call may go on.
LEMMA GoesOn ==
    ASSUME NEW k \in CommandCalls, NEW at
    PROVE  /\ k \in OpenCalls /\ at \in {"test", "untest", "create", "copy", "drop", "rename"}
                => Gone(k, at) \in OpenCalls
           /\ k \in UserAddCalls /\ at = "list users" => Gone(k, at) \in UserAddCalls
           /\ k \in WalletReads /\ at = "read" => Gone(k, at) \in WalletReads
           /\ k \in ExpertReads /\ at = "read" => Gone(k, at) \in ExpertReads
           /\ k \in ExpertLists /\ at = "read" => Gone(k, at) \in ExpertLists
           /\ k \in InsertWallets /\ at \in {"make", "count", "clear", "wallet"} => Gone(k, at) \in InsertWallets
           /\ k \in Signups /\ at \in {"find", "make", "user", "count", "clear", "wallet"}
                => Gone(k, at) \in Signups
           /\ k \in Externals /\ at \in {"find", "make", "user", "count", "clear", "wallet", "bonus"}
                => Gone(k, at) \in Externals
           /\ k \in UpdateWallets /\ at \in {"unset", "update"} => Gone(k, at) \in UpdateWallets
           /\ k \in DeleteWallets /\ at \in {"used", "delete"} => Gone(k, at) \in DeleteWallets
           /\ k \in PutExperts /\ at = "check" => Gone(k, at) \in PutExperts
           /\ k \in DisableExperts /\ at = "stamp" => Gone(k, at) \in DisableExperts
           /\ k \in DeleteExperts /\ at = "drop expert" => Gone(k, at) \in DeleteExperts
BY DEF Gone, OpenCalls, UserAddCalls, WalletReads, ExpertReads, ExpertLists, InsertWallets,
   Signups, Externals, UpdateWallets, DeleteWallets, PutExperts, DisableExperts, DeleteExperts

\* A step that goes on to a place where nothing is stamped, or returns.
LEMMA Moving ==
    ASSUME CallsOK, NEW p \in Processes, call[p] # G!NoCall, NEW k \in CommandCalls, To(p, k), k.m = call[p].m,
           k.m \in WalletGets => k.row = call[p].row,
           k.at \notin {"insertExpert", "updateExpert", "disabled"}
    PROVE  Moves(p, k)
BY DEF Moves, To, Stamped

-----------------------------------------------------------------------------
(* Statements keep the rows well formed, whoever else is in the file.       *)

LEMMA TestIsNoUser == Test \notin Users
BY PlatformAssumption

LEMMA DatabaseRows ==
    ASSUME TypeInv, NEW p \in Processes, G!initDatabase(p)
    PROVE  UsersOK' /\ \E k \in OpenCalls : To(p, k) /\ k.m = call[p].m /\ Moves(p, k)
<1>1. /\ call[p] \in OpenCalls
      /\ call[p] \in CommandCalls /\ call[p] # G!NoCall
  <2>1. /\ call[p] # G!NoCall
        /\ call[p].at \in {"open", "test", "untest", "create", "copy", "drop", "rename"}
    BY DEF G!initDatabase, G!CreateUsers, G!TestUsers, G!UntestUsers, G!CreateUsersNew, G!CopyUsers,
       G!DropUsers, G!RenameUsersNew, G!At
  <2> QED  BY <2>1, CallOf, Places DEF TypeInv
<1>2. \/ \E at \in {"test", "untest", "create", "copy", "drop", "rename"} : To(p, Gone(call[p], at))
      \/ \E v \in Plain : To(p, Returned(call[p], v))
  BY Steps, Values DEF G!initDatabase, G!CreateUsers, G!TestUsers, G!UntestUsers, G!CreateUsersNew,
     G!CopyUsers, G!DropUsers, G!RenameUsersNew
<1>3. \E k \in OpenCalls : To(p, k) /\ k.m = call[p].m /\ Moves(p, k)
  <2>1. CASE \E at \in {"test", "untest", "create", "copy", "drop", "rename"} : To(p, Gone(call[p], at))
    <3>1. PICK at \in {"test", "untest", "create", "copy", "drop", "rename"} : To(p, Gone(call[p], at))
      BY <2>1
    <3>2. /\ Gone(call[p], at) \in OpenCalls /\ Gone(call[p], at).m = call[p].m
          /\ Gone(call[p], at).at = at /\ Gone(call[p], at).row = call[p].row
      BY <1>1, <3>1, GoesOn, Stays
    <3>3. Moves(p, Gone(call[p], at))
      BY <1>1, <3>1, <3>2, Moving DEF TypeInv, CommandCalls
    <3> QED  BY <3>1, <3>2, <3>3
  <2>2. CASE \E v \in Plain : To(p, Returned(call[p], v))
    <3>1. PICK v \in Plain : To(p, Returned(call[p], v))
      BY <2>2
    <3>2. Returned(call[p], v) \in CommandCalls /\ Returned(call[p], v).m = call[p].m
          /\ Returned(call[p], v).at = "done" /\ Returned(call[p], v).row = call[p].row
      BY <1>1, Stays
    <3>3. Moves(p, Returned(call[p], v))
      BY <1>1, <3>1, <3>2, Moving DEF TypeInv
    <3>4. Returned(call[p], v) \in OpenCalls
      BY <1>1, <3>2, Methods DEF OpenCalls
    <3> QED  BY <3>1, <3>2, <3>3, <3>4
  <2> QED  BY <1>2, <2>1, <2>2
<1>4. UsersOK'
  <2> USE DEF TypeInv, UsersOK
  <2>1. CASE G!CreateUsers(p)
    BY <2>1 DEF G!CreateUsers, G!Has
  <2>2. CASE G!TestUsers(p)
    <3>1. CASE UNCHANGED users
      BY <2>2, <3>1 DEF G!TestUsers
    <3>2. CASE G!TestRow \notin users /\ users' = users \cup {G!TestRow}
      <4>1. \A u \in users : u.pubkey # Test
        <5>1. users \subseteq [pubkey : Users, ext : {"", "ext"}]
          BY <3>2 DEF UserRows
        <5> QED  BY <5>1, TestIsNoUser
      <4>2. G!TestRow.pubkey = Test
        BY DEF G!TestRow
      <4> QED  BY <2>2, <3>2, <4>1, <4>2 DEF G!TestUsers, UserRows
    <3> QED  BY <2>2, <3>1, <3>2 DEF G!TestUsers
  <2>3. CASE G!UntestUsers(p)
    BY <2>3 DEF G!UntestUsers
  <2>4. CASE G!CreateUsersNew(p)
    BY <2>4 DEF G!CreateUsersNew, G!usersVars
  <2>5. CASE G!CopyUsers(p)
    BY <2>5 DEF G!CopyUsers, G!Copied
  <2>6. CASE G!DropUsers(p)
    BY <2>6 DEF G!DropUsers
  <2>7. CASE G!RenameUsersNew(p)
    BY <2>7 DEF G!RenameUsersNew, G!usersVars
  <2> QED  BY <2>1, <2>2, <2>3, <2>4, <2>5, <2>6, <2>7 DEF G!initDatabase
<1> QED  BY <1>3, <1>4

\* Which steps of a wallet's insertion there are.
LEMMA InsertWalletCalls ==
    ASSUME TypeInv, NEW p \in Processes, G!insertWallet(p)
    PROVE  \E k : Moves(p, k)
<1>1. call[p] # G!NoCall /\ call[p].at \in {"count", "clear", "wallet"}
  BY DEF G!insertWallet, G!CountWallets, G!ClearDefault, G!InsertWalletRow, G!At
<1>2. call[p] \in InsertWallets \cup Signups \cup Externals /\ call[p] \in CommandCalls
  BY <1>1, CallOf, Places DEF TypeInv
<1>3. ASSUME NEW at \in {"clear", "wallet"}, To(p, Gone(call[p], at)) PROVE \E k : Moves(p, k)
  <2>1. Gone(call[p], at) \in CommandCalls
    BY <1>2, GoesOn DEF CommandCalls
  <2> QED  BY <1>1, <1>2, <1>3, <2>1, Stays, Moving DEF TypeInv
<1>4. CASE G!CountWallets(p)
  <2>1. CASE G!Goes(p, "wallet")
    BY <1>3, <2>1, Steps
  <2>2. CASE call' = [call EXCEPT ![p].at = "clear", ![p].row.dflt = TRUE]
    <3> DEFINE k == [call[p] EXCEPT !.at = "clear", !.row.dflt = TRUE]
    <3>1. To(p, k)
      BY <2>2 DEF To
    <3>2. k \in CommandCalls /\ k.m = call[p].m /\ k.m \notin WalletGets /\ k.at = "clear"
      BY <1>2 DEF InsertWallets, Signups, Externals, CommandCalls, WalletRows, WalletGets
    <3> QED  BY <1>1, <3>1, <3>2, Moving DEF TypeInv
  <2> QED  BY <1>4, <2>1, <2>2 DEF G!CountWallets
<1>5. CASE G!ClearDefault(p)
  BY <1>3, <1>5, Steps DEF G!ClearDefault
<1>6. CASE G!InsertWalletRow(p)
  <2>1. CASE G!Goes(p, "bonus") /\ call[p].m = "ensureExternalUser"
    <3>1. call[p] \in Externals
      BY <1>2, <2>1, Methods
    <3>2. Gone(call[p], "bonus") \in CommandCalls
      BY <1>2, <3>1, GoesOn DEF CommandCalls
    <3> QED  BY <1>1, <1>2, <2>1, <3>2, Steps, Stays, Moving DEF TypeInv
  <2>2. CASE G!Returns(p, G!Throws)
    BY ZenonT(60), <1>1, <1>2, <2>2, Steps, Stays, Values, Moving DEF TypeInv
  <2>3. CASE G!Returns(p, G!Inserted(call[p])) /\ call[p].m # "ensureExternalUser"
    <3> DEFINE k == Returned(call[p], G!Inserted(call[p]))
    <3>1. k \in CommandCalls
      <4>1. CASE call[p].m = "insertWallet"
        <5>1. call[p] \in InsertWallets
          BY <1>2, <4>1, Methods
        <5>2. G!Inserted(call[p]) = G!Id(made + 1) /\ made + 1 \in Nat
          BY <4>1 DEF G!Inserted, TypeInv, WalletsOK
        <5>3. G!Inserted(call[p]) \in WalletIds
          BY <5>2, Values
        <5> QED  BY <5>1, <5>3 DEF InsertWallets, CommandCalls, Returned
      <4>2. CASE call[p].m # "insertWallet"
        <5>1. call[p] \in Signups
          BY <1>2, <2>3, <4>2 DEF InsertWallets, Externals
        <5>2. G!Inserted(call[p]) = G!Id(call[p].user) /\ call[p].user \in Users
          BY <4>2, <5>1 DEF G!Inserted, Signups
        <5>3. G!Inserted(call[p]) \in UserAnswers
          BY <5>2, Values
        <5> QED  BY <5>1, <5>3 DEF Signups, CommandCalls, Returned
      <4> QED  BY <4>1, <4>2
    <3> QED  BY <1>1, <1>2, <2>3, <3>1, Steps, Stays, Moving DEF TypeInv
  <2> QED  BY <1>6, <2>1, <2>2, <2>3 DEF G!InsertWalletRow
<1> QED  BY <1>4, <1>5, <1>6 DEF G!insertWallet

\* Giving up a default changes neither an id nor a name.
LEMMA UndefaultRows ==
    ASSUME WalletsOK, NEW u, NEW i, wallets' = G!Undefault(u, i), made' = made
    PROVE  WalletsOK'
<1>1. \A w \in wallets' : \E v \in wallets :
         /\ w = (IF v.user = u /\ v.id # i THEN [v EXCEPT !.dflt = FALSE] ELSE v)
         /\ w.id = v.id /\ w.name = v.name
         /\ w \in [id : 1..made, name : Names, dflt : BOOLEAN, user : Users]
  BY DEF WalletsOK, G!Undefault
<1> QED  BY <1>1 DEF WalletsOK

LEMMA InsertWalletRows ==
    ASSUME TypeInv, NEW p \in Processes, G!insertWallet(p)
    PROVE  WalletsOK' /\ made <= made'
<1>0. made \in Nat /\ WalletsOK
  BY DEF TypeInv, WalletsOK
<1>1. CASE G!CountWallets(p)
  BY <1>0, <1>1 DEF G!CountWallets, G!walletVars, WalletsOK
<1>2. CASE G!ClearDefault(p)
  BY <1>0, <1>2, UndefaultRows DEF G!ClearDefault
<1>3. CASE G!InsertWalletRow(p)
  <2>1. CASE UNCHANGED <<wallets, made>>
    BY <1>0, <2>1 DEF WalletsOK
  <2>2. CASE ~G!Taken(call[p].row.name, 0)
    <3> DEFINE w == [call[p].row EXCEPT !.id = made + 1, !.user = call[p].user]
    <3>1. wallets' = wallets \cup {w} /\ made' = made + 1
      BY <1>3, <2>2 DEF G!InsertWalletRow
    <3>2. call[p] \in InsertWallets \cup Signups \cup Externals
      BY <1>3, CallOf, Places DEF TypeInv, G!InsertWalletRow, G!At
    <3>3. call[p].row \in WalletRows /\ call[p].user \in Users
      BY <3>2 DEF InsertWallets, Signups, Externals
    <3>4. w \in [id : 1..(made + 1), name : Names, dflt : BOOLEAN, user : Users]
          /\ w.id = made + 1 /\ w.name = call[p].row.name
      <4>1. made + 1 \in 1..(made + 1)
        BY <1>0
      <4>2. /\ w \in [id : {made + 1}, name : Names, dflt : BOOLEAN, user : Users]
            /\ w.id = made + 1 /\ w.name = call[p].row.name
        BY <3>3 DEF WalletRows
      <4> HIDE DEF w
      <4> QED  BY <4>1, <4>2
    <3>5. ASSUME NEW v \in wallets
          PROVE  /\ v \in [id : 1..(made + 1), name : Names, dflt : BOOLEAN, user : Users]
                 /\ v.id # made + 1 /\ v.name # w.name
      <4>1. v.id \in 1..made
        BY <1>0 DEF WalletsOK
      <4>2. v.id # 0 /\ v.id # made + 1 /\ v.id \in 1..(made + 1)
        BY <1>0, <4>1
      <4>3. v.name # w.name
        BY <2>2, <3>4, <4>2 DEF G!Taken
      <4> QED  BY <1>0, <4>2, <4>3 DEF WalletsOK
    <3> HIDE DEF w
    <3> QED  BY <1>0, <3>1, <3>4, <3>5 DEF WalletsOK
  <2> QED  BY <1>3, <2>1, <2>2 DEF G!InsertWalletRow, G!walletVars
<1> QED  BY <1>1, <1>2, <1>3 DEF G!insertWallet

\* A step that returns a plain value.
LEMMA Returning ==
    ASSUME TypeInv, NEW p \in Processes, call[p] # G!NoCall, NEW v \in Plain, To(p, Returned(call[p], v))
    PROVE  Moves(p, Returned(call[p], v))
BY CallOf, Stays, Moving DEF TypeInv

LEMMA UpdateWalletRows ==
    ASSUME TypeInv, NEW p \in Processes, G!updateWallet(p)
    PROVE  WalletsOK' /\ made' = made /\ \E k : Moves(p, k)
<1>0. made \in Nat /\ WalletsOK /\ made' = made
  BY DEF TypeInv, WalletsOK, G!updateWallet
<1>1. /\ call[p] # G!NoCall
      /\ call[p].at \in {"unset", "update"}
      /\ call[p] \in UpdateWallets /\ call[p] \in CommandCalls
  <2>1. call[p] # G!NoCall /\ call[p].at \in {"unset", "update"}
    BY DEF G!updateWallet, G!UnsetDefault, G!UpdateWalletRow, G!At
  <2> QED  BY <2>1, CallOf, Places DEF TypeInv
<1>2. CASE G!UnsetDefault(p)
  <2>1. WalletsOK'
    BY <1>0, <1>2, UndefaultRows DEF G!UnsetDefault
  <2>2. Gone(call[p], "update") \in CommandCalls
    BY <1>1, GoesOn DEF CommandCalls
  <2>3. Moves(p, Gone(call[p], "update"))
    BY <1>1, <1>2, <2>2, Steps, Stays, Moving DEF TypeInv, G!UnsetDefault
  <2> QED  BY <1>0, <2>1, <2>3
<1>3. CASE G!UpdateWalletRow(p)
  <2> DEFINE r == call[p].row
             old == {w \in G!Of(r.user) : w.id = r.id}
  <2>1. \E k : Moves(p, k)
    <3>1. \E v \in Plain : To(p, Returned(call[p], v))
      <4>1. G!Returns(p, G!Throws) \/ G!Returns(p, G!Bool(old # {}))
        BY <1>3 DEF G!UpdateWalletRow
      <4>2. G!Throws \in Plain /\ G!Bool(old # {}) \in Plain
        BY Values
      <4> QED  BY <4>1, <4>2, Steps
    <3> QED  BY <1>1, <3>1, Returning
  <2>2. CASE UNCHANGED wallets
    BY <1>0, <2>1, <2>2 DEF WalletsOK
  <2>3. CASE /\ ~(old # {} /\ G!Taken(r.name, r.id))
             /\ wallets' = (wallets \ old) \cup {r : w \in old}
    <3>1. CASE old = {}
      BY <1>0, <2>1, <2>3, <3>1 DEF WalletsOK
    <3>2. CASE old # {}
      <4>1. PICK w \in old : TRUE
        BY <3>2
      <4>2. w \in wallets /\ w.user = r.user /\ w.id = r.id
        BY <4>1 DEF G!Of
      <4>3. r \in [id : 1..made, name : Names, dflt : BOOLEAN, user : Users]
        <5>1. r \in WalletRows
          BY <1>1 DEF UpdateWallets
        <5>2. r.id \in 1..made /\ r.user \in Users
          BY <1>0, <4>2 DEF WalletsOK
        <5> QED  BY <5>1, <5>2 DEF WalletRows
      <4>4. wallets' = (wallets \ old) \cup {r}
        BY <2>3, <3>2
      <4>5. ASSUME NEW x \in wallets \ old PROVE x.id # r.id /\ x.name # r.name
        <5>1. x.id # r.id
          <6>1. SUFFICES ASSUME x.id = r.id PROVE FALSE
            OBVIOUS
          <6>2. x = w
            BY <1>0, <4>2, <6>1 DEF WalletsOK
          <6> QED  BY <4>1, <6>2
        <5>2. x.name # r.name
          BY <2>3, <3>2, <5>1 DEF G!Taken
        <5> QED  BY <5>1, <5>2
      <4>6. wallets' \subseteq [id : 1..made, name : Names, dflt : BOOLEAN, user : Users]
        BY <1>0, <4>3, <4>4 DEF WalletsOK
      <4>7. \A x, y \in wallets' : x.id = y.id \/ x.name = y.name => x = y
        <5> HIDE DEF r, old
        <5> QED  BY <1>0, <4>4, <4>5 DEF WalletsOK
      <4> QED  BY <1>0, <2>1, <4>6, <4>7 DEF WalletsOK
    <3> QED  BY <3>1, <3>2
  <2> QED  BY <1>3, <2>2, <2>3 DEF G!UpdateWalletRow
<1> QED  BY <1>2, <1>3 DEF G!updateWallet

LEMMA DeleteWalletRows ==
    ASSUME TypeInv, NEW p \in Processes, G!deleteWallet(p)
    PROVE  WalletsOK' /\ made' = made /\ \E k : Moves(p, k)
<1>0. made \in Nat /\ WalletsOK /\ made' = made
  BY DEF TypeInv, WalletsOK, G!deleteWallet
<1>1. /\ call[p] # G!NoCall
      /\ call[p].at \in {"used", "delete"}
      /\ call[p] \in DeleteWallets /\ call[p] \in CommandCalls
  <2>1. call[p] # G!NoCall /\ call[p].at \in {"used", "delete"}
    BY DEF G!deleteWallet, G!CountExperts, G!DeleteWalletRow, G!At
  <2> QED  BY <2>1, CallOf, Places DEF TypeInv
<1>2. wallets' \subseteq wallets
  BY DEF G!deleteWallet, G!CountExperts, G!DeleteWalletRow
<1>3. WalletsOK'
  BY <1>0, <1>2 DEF WalletsOK
<1>4. \E k : Moves(p, k)
  <2>1. CASE G!Goes(p, "delete")
    <3>1. Gone(call[p], "delete") \in CommandCalls
      BY <1>1, GoesOn DEF CommandCalls
    <3> QED  BY <1>1, <2>1, <3>1, Steps, Stays, Moving DEF TypeInv
  <2>2. CASE \E v \in Plain : G!Returns(p, v)
    BY <1>1, <2>2, Steps, Returning
  <2> QED  BY <2>1, <2>2, Values DEF G!deleteWallet, G!CountExperts, G!DeleteWalletRow
<1> QED  BY <1>0, <1>3, <1>4

\* What the time of a row is when it is written.
LEMMA PutRows ==
    ASSUME TypeInv, NEW e \in Experts, NEW row, G!Put(e, row), UNCHANGED <<clock, made>>,
           row \in [wallet : 0..made, user : Users \cup {Test}, disabled : BOOLEAN, at : 0..clock]
    PROVE  ExpertsOK'
<1>1. ExpertsOK
  BY DEF TypeInv
<1>2. row.at \in Nat /\ row.at <= clock
  BY <1>1 DEF ExpertsOK
<1>3. experts' \in [Experts -> [wallet : 0..made, user : Users \cup {Test}, disabled : BOOLEAN, at : 0..clock]]
  BY <1>1 DEF ExpertsOK, G!Put
<1>4. top' \in Nat /\ top' <= clock
  BY <1>1, <1>2 DEF ExpertsOK, G!Put, G!Later
<1>5. spaced' \subseteq Experts
  BY <1>1 DEF ExpertsOK, G!Put
<1> QED  BY <1>1, <1>3, <1>4, <1>5 DEF ExpertsOK

LEMMA ExpertStatementRows ==
    ASSUME TypeInv, NEW p \in Processes, G!ExpertStatement(p), UNCHANGED clock
    PROVE  ExpertsOK' /\ made' = made /\ \E k : Moves(p, k)
<1>0. ExpertsOK /\ made' = made /\ clock \in Nat /\ made \in Nat
  BY DEF TypeInv, ExpertsOK, G!ExpertStatement, G!walletVars
<1>1. ASSUME UNCHANGED G!expertVars PROVE ExpertsOK'
  BY <1>0, <1>1 DEF ExpertsOK, G!expertVars
<1>2. ASSUME call[p] # G!NoCall, \E v \in Plain : G!Returns(p, v) PROVE \E k : Moves(p, k)
  BY <1>2, Steps, Returning
<1>3. CASE G!CheckWallet(p)
  <2>1. call[p] # G!NoCall /\ call[p].at = "check"
    BY <1>3 DEF G!CheckWallet, G!At
  <2>2. call[p] \in PutExperts /\ call[p] \in CommandCalls
    BY <2>1, CallOf, Places DEF TypeInv
  <2>3. ExpertsOK'
    BY <1>1, <1>3 DEF G!CheckWallet
  <2>4. CASE G!Returns(p, G!Throws)
    BY <1>0, <1>2, <2>1, <2>3, <2>4, Values
  <2>5. CASE /\ G!getWallet(call[p].row.wallet, call[p].row.user) # G!Null
             /\ call' = [call EXCEPT ![p].at = call[p].m, ![p].row.at = clock]
    <3> DEFINE k == [call[p] EXCEPT !.at = call[p].m, !.row.at = clock]
    <3>1. To(p, k)
      BY <2>5 DEF To
    <3>2. /\ k \in PutExperts /\ k.m = call[p].m /\ k.m \notin WalletGets
          /\ k.row.at = clock /\ k.row.wallet = call[p].row.wallet
      BY <1>0, <2>2 DEF PutExperts, ExpertRows, WalletGets
    <3>3. call[p].row.wallet <= made
      <4>1. PICK w \in wallets : w.id = call[p].row.wallet
        BY <2>5 DEF G!getWallet, G!FirstOf, G!Of
      <4> QED  BY <4>1 DEF TypeInv, WalletsOK
    <3> HIDE DEF k
    <3>4. Moves(p, k)
      BY <1>0, <2>1, <3>1, <3>2, <3>3 DEF Moves, To, Stamped, CommandCalls
    <3> QED  BY <1>0, <2>3, <3>4
  <2> QED  BY <1>3, <2>4, <2>5 DEF G!CheckWallet
<1>4. CASE G!insertExpert(p) \/ G!updateExpert(p)
  <2>1. call[p] # G!NoCall /\ call[p].at \in {"insertExpert", "updateExpert"}
    BY <1>4 DEF G!insertExpert, G!updateExpert, G!At
  <2>2. call[p] \in PutExperts /\ call[p] \in CommandCalls
    BY <2>1, CallOf, Places DEF TypeInv
  <2>3. \E k : Moves(p, k)
    BY <1>2, <1>4, <2>1, Values DEF G!insertExpert, G!updateExpert
  <2>4. CASE UNCHANGED G!expertVars
    BY <1>0, <1>1, <2>3, <2>4
  <2>5. CASE G!Put(call[p].key, call[p].row)
    <3>1. call[p].row \in ExpertRows /\ call[p].key \in Experts
      BY <2>2 DEF PutExperts
    <3>2. call[p].row.at <= clock /\ call[p].row.wallet <= made
      BY <2>1, CallOf DEF TypeInv, Stamped
    <3>3. call[p].row \in [wallet : 0..made, user : Users \cup {Test}, disabled : BOOLEAN, at : 0..clock]
      BY <1>0, <3>1, <3>2 DEF ExpertRows
    <3> QED  BY <1>0, <2>3, <2>5, <3>1, <3>3, PutRows
  <2> QED  BY <1>4, <2>4, <2>5 DEF G!insertExpert, G!updateExpert
<1>5. CASE G!setExpertDisabled(p)
  <2>1. call[p] # G!NoCall /\ call[p].at \in {"stamp", "disabled"}
    BY <1>5 DEF G!setExpertDisabled, G!At
  <2>2. call[p] \in DisableExperts /\ call[p] \in CommandCalls
    BY <2>1, CallOf, Places DEF TypeInv
  <2>3. CASE /\ call' = [call EXCEPT ![p].at = "disabled", ![p].row.at = clock]
             /\ UNCHANGED G!expertVars
    <3> DEFINE k == [call[p] EXCEPT !.at = "disabled", !.row.at = clock]
    <3>1. To(p, k)
      BY <2>3 DEF To
    <3>2. /\ k \in DisableExperts /\ k.m = call[p].m /\ k.m \notin WalletGets
          /\ k.row.at = clock /\ k.at = "disabled"
      BY <1>0, <2>2 DEF DisableExperts, ExpertRows, WalletGets
    <3> HIDE DEF k
    <3>3. Moves(p, k)
      BY <1>0, <2>1, <3>1, <3>2 DEF Moves, To, Stamped, CommandCalls
    <3> QED  BY <1>0, <1>1, <2>3, <3>3
  <2>4. CASE G!Returns(p, G!False) /\ UNCHANGED G!expertVars
    BY <1>0, <1>1, <1>2, <2>1, <2>4, Values
  <2>5. CASE /\ call[p].at = "disabled"
             /\ G!getExpert(call[p].key, call[p].user) # G!Null
             /\ G!Put(call[p].key, [experts[call[p].key] EXCEPT !.disabled = call[p].row.disabled,
                                                                !.at = call[p].row.at])
             /\ G!Returns(p, G!True)
    <3>1. call[p].row.at <= clock /\ call[p].row.at \in Nat /\ call[p].row.disabled \in BOOLEAN
          /\ call[p].key \in Experts
      <4>1. call[p].row \in ExpertRows /\ call[p].key \in Experts
        BY <2>2 DEF DisableExperts
      <4>2. call[p].row.at <= clock
        BY <2>1, <2>5, CallOf DEF TypeInv, Stamped
      <4> QED  BY <4>1, <4>2 DEF ExpertRows
    <3>2. [experts[call[p].key] EXCEPT !.disabled = call[p].row.disabled, !.at = call[p].row.at]
            \in [wallet : 0..made, user : Users \cup {Test}, disabled : BOOLEAN, at : 0..clock]
      <4>1. call[p].row.at \in 0..clock
        BY <1>0, <3>1
      <4>2. experts[call[p].key] \in [wallet : 0..made, user : Users \cup {Test}, disabled : BOOLEAN, at : 0..clock]
        BY <1>0, <3>1 DEF ExpertsOK
      <4> QED  BY <3>1, <4>1, <4>2
    <3> QED  BY <1>0, <1>2, <2>1, <2>5, <3>1, <3>2, PutRows, Values
  <2> QED  BY <1>5, <2>3, <2>4, <2>5 DEF G!setExpertDisabled, G!At
<1>6. CASE G!deleteExpert(p)
  <2>1. call[p] # G!NoCall
    BY <1>6 DEF G!deleteExpert, G!At
  <2>2. \E v \in Plain : G!Returns(p, v)
    BY <1>6, Values DEF G!deleteExpert
  <2>3. G!NoExpert \in [wallet : 0..made, user : Users \cup {Test}, disabled : BOOLEAN, at : 0..clock]
    BY <1>0 DEF G!NoExpert
  <2>4. experts' = experts \/ experts' = [experts EXCEPT ![call[p].key] = G!NoExpert]
    BY <1>6 DEF G!deleteExpert
  <2>5. ExpertsOK'
    BY <1>0, <1>6, <2>3, <2>4 DEF ExpertsOK, G!deleteExpert
  <2> QED  BY <1>0, <1>2, <2>1, <2>2, <2>5
<1> QED  BY <1>3, <1>4, <1>5, <1>6 DEF G!ExpertStatement

\* The first of some wallets is one of them.
LEMMA FirstRow ==
    ASSUME WalletsOK, NEW ws \in SUBSET wallets
    PROVE  G!FirstOf(ws) \in WalletAnswers
<1>0. wallets \subseteq WalletRows /\ \A w \in wallets : w.id \in Nat
  BY DEF WalletsOK, WalletRows
<1>1. CASE ws = {}
  BY <1>1, Values DEF G!FirstOf
<1>2. CASE ws # {}
  <2>1. PICK v \in ws : \A x \in ws : v.id <= x.id
    <3> DEFINE ids == {w.id : w \in ws}
    <3>1. ids \in SUBSET Nat /\ ids # {}
      BY <1>0, <1>2
    <3>2. PICK i \in ids : \A j \in ids : i <= j
      BY <3>1, LeastElement
    <3> QED  BY <3>2
  <2> DEFINE first == CHOOSE w \in ws : \A x \in ws : w.id <= x.id
  <2>2. first \in ws
    BY <2>1
  <2>3. first \in WalletRows
    BY <1>0, <2>2
  <2> HIDE DEF first
  <2>4. [is |-> "row", row |-> first] \in WalletAnswers
    BY <2>3 DEF WalletAnswers
  <2> QED  BY <1>2, <2>4 DEF G!FirstOf, G!Found, first
<1> QED  BY <1>1, <1>2

LEMMA ReadCalls ==
    ASSUME TypeInv, NEW p \in Processes, G!read(p)
    PROVE  \E k : Moves(p, k)
<1> DEFINE v == G!Answer(call[p])
<1>1. call[p] # G!NoCall /\ call[p].at = "read" /\ To(p, Returned(call[p], v))
  BY Steps DEF G!read, G!At
<1>2. call[p] \in CommandCalls /\ call[p] \in WalletReads \cup ExpertReads \cup ExpertLists
  BY <1>1, CallOf, Places DEF TypeInv
<1>3. experts \in [Experts -> ExpertRows]
  <2>1. ASSUME NEW e \in Experts PROVE experts[e] \in ExpertRows
    BY DEF TypeInv, ExpertsOK, ExpertRows
  <2> QED  BY <2>1 DEF TypeInv, ExpertsOK
<1>4. CASE call[p] \in WalletReads
  <2>1. call[p].m \in {"getWalletByName", "getDefaultWallet"}
    BY <1>4 DEF WalletReads
  <2>2. v \in {G!getWalletByName(call[p].key, call[p].user), G!getDefaultWallet(call[p].user)}
    BY <2>1 DEF G!Answer
  <2>3. \A ws \in SUBSET wallets : G!FirstOf(ws) \in WalletAnswers
    BY FirstRow DEF TypeInv
  <2>4. v \in WalletAnswers
    BY <2>2, <2>3 DEF G!getWalletByName, G!getDefaultWallet, G!Of
  <2> HIDE DEF v
  <2>5. Returned(call[p], v) \in CommandCalls
    BY <1>4, <2>4 DEF WalletReads, CommandCalls, Returned
  <2> QED  BY <1>1, <1>2, <2>5, Stays, Moving DEF TypeInv
<1>5. CASE call[p] \in ExpertReads
  <2>1. call[p].m = "getExpert" /\ call[p].key \in Experts
    BY <1>5 DEF ExpertReads
  <2>2. v \in {G!Found(experts[call[p].key]), G!Null}
    BY <2>1 DEF G!Answer, G!getExpert
  <2>3. v \in ExpertAnswers
    BY <1>3, <2>1, <2>2, Values DEF G!Found, ExpertAnswers
  <2> HIDE DEF v
  <2>4. Returned(call[p], v) \in CommandCalls
    BY <1>5, <2>3 DEF ExpertReads, CommandCalls, Returned
  <2> QED  BY <1>1, <1>2, <2>4, Stays, Moving DEF TypeInv
<1>6. CASE call[p] \in ExpertLists
  <2> DEFINE D == {f \in Experts : G!Exists(f) /\ experts[f].user = call[p].user}
             rows == [e \in D |-> experts[e]]
  <2>1. v = [is |-> "rows", rows |-> rows]
    BY <1>6 DEF G!Answer, G!listExperts, G!Rows, ExpertLists
  <2>2. rows \in [D -> ExpertRows] /\ D \in SUBSET Experts
    BY <1>3
  <2> HIDE DEF D, rows
  <2>3. rows \in UNION {[E -> ExpertRows] : E \in SUBSET Experts}
    BY <2>2
  <2>4. v \in ListAnswers
    BY <2>1, <2>3 DEF ListAnswers
  <2> HIDE DEF v
  <2>5. Returned(call[p], v) \in CommandCalls
    BY <1>6, <2>4 DEF ExpertLists, CommandCalls, Returned
  <2> QED  BY <1>1, <1>2, <2>5, Stays, Moving DEF TypeInv
<1> QED  BY <1>2, <1>4, <1>5, <1>6

-----------------------------------------------------------------------------
(* Every step keeps the rows and the calls well formed.                     *)

LEMMA ExpertsStay ==
    ASSUME ExpertsOK, UNCHANGED <<experts, top, spaced>>, made' \in Nat, made <= made',
           clock' \in Nat, clock <= clock'
    PROVE  ExpertsOK'
<1>1. ASSUME NEW e \in Experts
      PROVE  experts[e] \in [wallet : 0..made', user : Users \cup {Test}, disabled : BOOLEAN, at : 0..clock']
  <2>1. experts[e] \in [wallet : 0..made, user : Users \cup {Test}, disabled : BOOLEAN, at : 0..clock]
    BY DEF ExpertsOK
  <2>2. 0..made \subseteq 0..made' /\ 0..clock \subseteq 0..clock'
    BY DEF ExpertsOK
  <2> QED  BY <2>1, <2>2
<1> QED  BY <1>1 DEF ExpertsOK

LEMMA TypeSteps ==
    ASSUME TypeInv, NEW p \in Processes, \E k : Moves(p, k), UsersOK', WalletsOK', ExpertsOK',
           made <= made', UNCHANGED <<clock, job, shared, cursor, seen, joined>>,
           srv' \in {"down", "starting", "up", "stopped"}
    PROVE  TypeInv'
<1>1. PICK k : Moves(p, k)
  OBVIOUS
<1>2. CallsOK'
  BY <1>1, CallsMove DEF TypeInv, WalletsOK, ExpertsOK
<1>3. JobsOK'
  BY <1>1, JobsMove
<1> QED  BY <1>2, <1>3 DEF TypeInv, MonitorOK

LEMMA RunTypes ==
    ASSUME TypeInv, NEW p \in Processes, Run(p)
    PROVE  TypeInv'
<1> USE DEF Run, Elsewhere, monitorVars, historyVars
<1>0. made \in Nat /\ clock \in Nat /\ srv' \in {"down", "starting", "up", "stopped"}
  BY DEF TypeInv, WalletsOK, ExpertsOK, JobsOK
<1>1. ASSUME UNCHANGED G!usersVars PROVE UsersOK'
  BY <1>1 DEF TypeInv, UsersOK, G!usersVars
<1>2. ASSUME UNCHANGED G!walletVars PROVE WalletsOK' /\ made' = made
  BY <1>2 DEF TypeInv, WalletsOK, G!walletVars
<1>3. ASSUME UNCHANGED G!expertVars, made' \in Nat, made <= made' PROVE ExpertsOK'
  BY <1>0, <1>3, ExpertsStay DEF TypeInv, G!expertVars
<1>4. CASE G!initDatabase(p)
  <2>1. UNCHANGED <<G!walletVars, G!expertVars>>
    BY <1>4 DEF G!initDatabase
  <2>2. UsersOK' /\ \E k : Moves(p, k)
    BY <1>4, DatabaseRows
  <2> QED  BY <1>0, <1>2, <1>3, <2>1, <2>2, TypeSteps
<1>5. CASE G!insertWallet(p)
  <2>1. UNCHANGED <<G!usersVars, G!expertVars>>
    BY <1>5 DEF G!insertWallet
  <2>2. WalletsOK' /\ made <= made' /\ made' \in Nat /\ \E k : Moves(p, k)
    BY <1>5, InsertWalletRows, InsertWalletCalls DEF WalletsOK
  <2> QED  BY <1>0, <1>1, <1>3, <2>1, <2>2, TypeSteps
<1>6. CASE G!updateWallet(p)
  <2>1. UNCHANGED <<G!usersVars, G!expertVars>>
    BY <1>6 DEF G!updateWallet
  <2>2. WalletsOK' /\ made' = made /\ \E k : Moves(p, k)
    BY <1>6, UpdateWalletRows
  <2> QED  BY <1>0, <1>1, <1>3, <2>1, <2>2, TypeSteps
<1>7. CASE G!deleteWallet(p)
  <2>1. UNCHANGED <<G!usersVars, G!expertVars>>
    BY <1>7 DEF G!deleteWallet
  <2>2. WalletsOK' /\ made' = made /\ \E k : Moves(p, k)
    BY <1>7, DeleteWalletRows
  <2> QED  BY <1>0, <1>1, <1>3, <2>1, <2>2, TypeSteps
<1>8. CASE G!ExpertStatement(p)
  <2>1. UNCHANGED <<G!usersVars, G!walletVars>>
    BY <1>8 DEF G!ExpertStatement
  <2>2. ExpertsOK' /\ \E k : Moves(p, k)
    BY <1>8, ExpertStatementRows
  <2> QED  BY <1>0, <1>1, <1>2, <2>1, <2>2, TypeSteps
<1>9. CASE G!read(p)
  <2>1. UNCHANGED <<G!usersVars, G!walletVars, G!expertVars>>
    BY <1>9 DEF G!read
  <2>2. \E k : Moves(p, k)
    BY <1>9, ReadCalls
  <2> QED  BY <1>0, <1>1, <1>2, <1>3, <2>1, <2>2, TypeSteps
<1> QED  BY <1>4, <1>5, <1>6, <1>7, <1>8, <1>9 DEF G!Statement

\* The same method, as the server and a command see it.
LEMMA SameInsertUser ==
    ASSUME NEW p, NEW at, NEW pubkey, NEW ext
    PROVE  /\ S!G!insertUser(p, at, pubkey, ext) => G!insertUser(p, at, pubkey, ext)
           /\ C!G!insertUser(p, at, pubkey, ext) => G!insertUser(p, at, pubkey, ext)
BY DEF S!G!insertUser, C!G!insertUser, G!insertUser, S!G!Has, C!G!Has, G!Has, S!G!getUserByPubkey,
   C!G!getUserByPubkey, G!getUserByPubkey, S!G!Returns, C!G!Returns, G!Returns, S!G!Throws, C!G!Throws,
   G!Throws, S!G!walletVars, C!G!walletVars, G!walletVars, S!G!expertVars, C!G!expertVars, G!expertVars

LEMMA InsertUserRows ==
    ASSUME TypeInv, NEW p \in Processes, call[p] # G!NoCall, NEW at, NEW pubkey \in Users, NEW ext \in {"", "ext"},
           G!insertUser(p, at, pubkey, ext),
           \/ call[p] \in Signups \cup Externals /\ at = "count"
           \/ call[p] \in UserAddCalls /\ at = "list users"
    PROVE  /\ UsersOK' /\ \E k : Moves(p, k)
           /\ UNCHANGED <<wallets, made, experts, top, spaced>>
<1>1. UNCHANGED <<wallets, made, experts, top, spaced, tables, usersNew>>
  BY DEF G!insertUser, G!walletVars, G!expertVars
<1>2. UsersOK'
  <2>1. CASE UNCHANGED users
    BY <1>1, <2>1 DEF TypeInv, UsersOK
  <2>2. CASE /\ G!getUserByPubkey(pubkey) = {}
             /\ users' = users \cup {[pubkey |-> pubkey, ext |-> ext]}
    <3> DEFINE r == [pubkey |-> pubkey, ext |-> ext]
    <3>1. r \in UserRows /\ r.pubkey = pubkey
      BY DEF UserRows
    <3>2. \A u \in users : u.pubkey # pubkey
      BY <2>2 DEF G!getUserByPubkey
    <3>3. users' = users \cup {r}
      BY <2>2
    <3> HIDE DEF r
    <3> QED  BY <1>1, <3>1, <3>2, <3>3 DEF TypeInv, UsersOK
  <2> QED  BY <2>1, <2>2 DEF G!insertUser
<1>3. \E k : Moves(p, k)
  <2>1. CASE G!Returns(p, G!Throws)
    BY <2>1, Steps, Returning, Values
  <2>2. CASE call' = [call EXCEPT ![p].at = at, ![p].user = pubkey]
    <3> DEFINE k == [call[p] EXCEPT !.at = at, !.user = pubkey]
    <3>1. To(p, k)
      BY <2>2 DEF To
    <3>2. k \in CommandCalls /\ k.m = call[p].m /\ k.m \notin WalletGets /\ k.at = at
      BY DEF CommandCalls, Signups, Externals, UserAddCalls, WalletGets
    <3> HIDE DEF k
    <3> QED  BY <3>1, <3>2, Moving DEF TypeInv
  <2> QED  BY <2>1, <2>2 DEF G!insertUser
<1> QED  BY <1>1, <1>2, <1>3

LEMMA AddUserTypes ==
    ASSUME TypeInv, NEW c \in Commands, AddUser(c)
    PROVE  TypeInv'
<1> USE DEF AddUser, Elsewhere, monitorVars, historyVars
<1>0. c \in Processes /\ srv' \in {"down", "starting", "up", "stopped"} /\ made \in Nat /\ clock \in Nat
  BY DEF Processes, TypeInv, JobsOK, WalletsOK, ExpertsOK
<1>1. /\ call[c] # G!NoCall /\ call[c].at \in {"insert user", "list users"}
      /\ call[c] \in UserAddCalls /\ call[c] \in CommandCalls
  <2>1. call[c] # G!NoCall /\ call[c].at \in {"insert user", "list users"}
    BY DEF C!executeAddUserCommand, C!listUsers, C!G!At, C!G!NoCall, G!NoCall
  <2> QED  BY <1>0, <2>1, CallOf, Places DEF TypeInv
<1>2. CASE C!executeAddUserCommand(c)
  <2>1. G!insertUser(c, "list users", call[c].key, "") /\ call[c].key \in Users
    BY <1>1, <1>2, SameInsertUser DEF C!executeAddUserCommand, UserAddCalls
  <2>2. /\ UsersOK' /\ \E k : Moves(c, k)
        /\ UNCHANGED <<wallets, made, experts, top, spaced>>
    BY <1>0, <1>1, <2>1, InsertUserRows
  <2>3. WalletsOK' /\ ExpertsOK'
    BY <1>0, <2>2, ExpertsStay DEF TypeInv, WalletsOK
  <2> QED  BY <1>0, <2>2, <2>3, TypeSteps
<1>3. CASE C!listUsers(c) /\ UNCHANGED registryVars
  <2>1. C!G!Id(call[c].user) \in UserAnswers
    BY <1>1, Values DEF UserAddCalls
  <2>2. To(c, Returned(call[c], C!G!Id(call[c].user)))
    BY <1>3, Steps DEF C!listUsers
  <2>3. Returned(call[c], C!G!Id(call[c].user)) \in CommandCalls
    BY <1>1, <2>1 DEF UserAddCalls, CommandCalls, Returned
  <2>4. \E k : Moves(c, k)
    BY <1>0, <1>1, <2>2, <2>3, Stays, Moving DEF TypeInv
  <2>5. UNCHANGED <<tables, users, usersNew, wallets, made, experts, top, spaced>>
    BY <1>3 DEF registryVars
  <2>6. UsersOK' /\ WalletsOK' /\ ExpertsOK'
    BY <1>0, <2>5, ExpertsStay DEF TypeInv, UsersOK, WalletsOK
  <2> QED  BY <1>0, <2>4, <2>5, <2>6, TypeSteps
<1> QED  BY <1>2, <1>3

\* Where a request is taken to.
LEMMA Routes ==
    ASSUME NEW k \in CommandCalls, k.at = "sent"
    PROVE  LET n == Gone(k, S!Route(k)) IN
           \/ /\ n \in CommandCalls /\ n.m = k.m
              /\ n.at \notin {"sent", "wallet", "update", "insertExpert",
                              "updateExpert", "disabled", "delete", "done"}
           \/ n \in UpdateWallets /\ n.m = k.m /\ n.at = "update" /\ ~k.row.dflt
<1> USE DEF S!Route, S!walletReads, S!walletEdits, S!expertReads, S!expertWrites, S!expertEdits, S!UserMethods
<1> DEFINE at == S!Route(k)
<1>1. Gone(k, at).at = at /\ Gone(k, at).m = k.m
  BY ZenonT(60), Stays
<1>2. k \in CommandCalls \ (OpenCalls \cup UserAddCalls)
  BY DEF OpenCalls, UserAddCalls
<1>3. CASE k \in WalletReads \cup ExpertReads \cup ExpertLists
  <2>1. at = "read"
    BY <1>3 DEF WalletReads, ExpertReads, ExpertLists
  <2> HIDE DEF at
  <2>2. Gone(k, at) \in WalletReads \cup ExpertReads \cup ExpertLists
    BY <1>3, <2>1, GoesOn
  <2> QED  BY <1>1, <2>1, <2>2 DEF CommandCalls, at
<1>4. CASE k \in InsertWallets
  <2>1. at \in {"make", "count"}
    BY <1>4 DEF InsertWallets
  <2> HIDE DEF at
  <2>2. Gone(k, at) \in InsertWallets
    BY <1>4, <2>1, GoesOn
  <2> QED  BY <1>1, <2>1, <2>2 DEF CommandCalls, at
<1>5. CASE k \in Signups \cup Externals
  <2>1. at = "find"
    BY <1>5 DEF Signups, Externals
  <2> HIDE DEF at
  <2>2. Gone(k, at) \in Signups \cup Externals
    BY <1>5, <2>1, GoesOn
  <2> QED  BY <1>1, <2>1, <2>2 DEF CommandCalls, at
<1>6. CASE k \in UpdateWallets
  <2>1. (k.row.dflt /\ at = "unset") \/ (~k.row.dflt /\ at = "update")
    BY <1>6 DEF UpdateWallets
  <2> HIDE DEF at
  <2>2. Gone(k, at) \in UpdateWallets
    BY <1>6, <2>1, GoesOn
  <2> QED  BY <1>1, <2>1, <2>2 DEF CommandCalls, at
<1>7. CASE k \in DeleteWallets
  <2>1. at = "used"
    BY <1>7 DEF DeleteWallets
  <2> HIDE DEF at
  <2>2. Gone(k, at) \in DeleteWallets
    BY <1>7, <2>1, GoesOn
  <2> QED  BY <1>1, <2>1, <2>2 DEF CommandCalls, at
<1>8. CASE k \in PutExperts
  <2>1. at = "check"
    BY <1>8 DEF PutExperts
  <2> HIDE DEF at
  <2>2. Gone(k, at) \in PutExperts
    BY <1>8, <2>1, GoesOn
  <2> QED  BY <1>1, <2>1, <2>2 DEF CommandCalls, at
<1>9. CASE k \in DisableExperts
  <2>1. at = "stamp"
    BY <1>9 DEF DisableExperts
  <2> HIDE DEF at
  <2>2. Gone(k, at) \in DisableExperts
    BY <1>9, <2>1, GoesOn
  <2> QED  BY <1>1, <2>1, <2>2 DEF CommandCalls, at
<1>10. CASE k \in DeleteExperts
  <2>1. at = "drop expert"
    BY <1>10 DEF DeleteExperts
  <2> HIDE DEF at
  <2>2. Gone(k, at) \in DeleteExperts
    BY <1>10, <2>1, GoesOn
  <2> QED  BY <1>1, <2>1, <2>2 DEF CommandCalls, at
<1> HIDE DEF at
<1> QED  BY <1>2, <1>3, <1>4, <1>5, <1>6, <1>7, <1>8, <1>9, <1>10 DEF CommandCalls

\* The user a signup finds.
LEMMA KnownUsers ==
    ASSUME UsersOK, NEW k \in Signups \cup Externals, S!Known(k) # {}
    PROVE  LET u == CHOOSE u \in S!Known(k) : TRUE IN
           u \in users /\ u.pubkey \in Users
<1> DEFINE u == CHOOSE u \in S!Known(k) : TRUE
<1>1. u \in S!Known(k)
  <2>1. \E x \in S!Known(k) : TRUE
    OBVIOUS
  <2> QED  BY <2>1
<1>2. u \in users /\ (u.ext = "ext" \/ u.pubkey \in Users)
  BY <1>1 DEF S!Known, S!G!getUserByPubkey, S!G!getUserByExtId, Signups, Externals
<1>3. u \in UserRows
  BY <1>2 DEF UsersOK
<1> HIDE DEF u
<1>4. u.pubkey \in Users
  <2>1. CASE u = G!TestRow
    <3>1. u.ext = ""
      BY <2>1 DEF G!TestRow
    <3> QED  BY <1>2, <3>1
  <2>2. CASE u \in [pubkey : Users, ext : {"", "ext"}]
    BY <2>2
  <2> QED  BY <1>3, <2>1, <2>2 DEF UserRows
<1> QED  BY <1>2, <1>4 DEF u

LEMMA ServeTypes ==
    ASSUME TypeInv, NEW c \in Commands,
           \/ Serve(c)
           \/ (Fails(c) \/ LoseAnswer(c) \/ WalletService(c))
    PROVE  TypeInv'
<1> USE DEF Elsewhere, monitorVars, historyVars, S!registryVars, registryVars, Fault, ServerFault
<1>0. /\ c \in Processes /\ made \in Nat /\ clock \in Nat
      /\ srv \in {"down", "starting", "up", "stopped"}
  BY DEF Processes, TypeInv, JobsOK, WalletsOK, ExpertsOK
<1>1. UNCHANGED <<clock, job, shared, cursor, seen, joined, srv>>
  BY DEF Serve, Fails, LoseAnswer, WalletService, S!Handle, S!Receive, S!FindUser, S!addUser, S!WalletMade,
     S!Bonus, S!Unreachable, S!WalletNotMade
<1>2. ASSUME NEW k, Moves(c, k), UNCHANGED S!registryVars
      PROVE  TypeInv'
  <2>1. UsersOK' /\ WalletsOK' /\ ExpertsOK'
    BY <1>0, <1>1, <1>2, ExpertsStay DEF TypeInv, UsersOK, WalletsOK
  <2> QED  BY <1>0, <1>1, <1>2, <2>1, TypeSteps
<1>3. ASSUME call[c] # G!NoCall, NEW v \in Plain, To(c, Returned(call[c], v)), UNCHANGED S!registryVars
      PROVE  TypeInv'
  BY <1>0, <1>2, <1>3, Returning
<1>4. ASSUME call[c] # G!NoCall, NEW at, To(c, Gone(call[c], at)), Gone(call[c], at) \in CommandCalls,
             at \notin {"insertExpert", "updateExpert", "disabled"}, UNCHANGED S!registryVars
      PROVE  TypeInv'
  <2>1. call[c] \in CommandCalls
    BY <1>0, <1>4, CallOf DEF TypeInv
  <2> QED  BY <1>0, <1>2, <1>4, <2>1, Stays, Moving DEF TypeInv
<1>5. CASE Serve(c) /\ S!Receive(c)
  <2>1. call[c] # G!NoCall /\ call[c].at = "sent" /\ UNCHANGED S!registryVars
    BY <1>5 DEF S!Receive, S!G!At, S!G!NoCall, G!NoCall
  <2>2. call[c] \in CommandCalls
    BY <1>0, <2>1, CallOf DEF TypeInv
  <2>3. CASE S!G!Goes(c, S!Route(call[c]))
    <3> DEFINE at == S!Route(call[c])
    <3>1. Gone(call[c], at) \in CommandCalls /\ at \notin {"insertExpert", "updateExpert", "disabled"}
      BY <2>1, <2>2, Routes, Stays DEF CommandCalls
    <3> HIDE DEF at
    <3>2. To(c, Gone(call[c], at))
      BY <2>3, Steps DEF at
    <3> QED  BY <1>4, <2>1, <3>1, <3>2
  <2>4. CASE \E s \in {"403", "503"} : S!Refuses(c, s)
    BY <1>3, <2>1, <2>4, Steps, Values
  <2> QED  BY <1>5, <2>3, <2>4 DEF S!Receive
<1>6. CASE Serve(c) /\ S!FindUser(c)
  <2>1. call[c] # G!NoCall /\ call[c].at = "find" /\ UNCHANGED S!registryVars
    BY <1>6 DEF S!FindUser, S!G!At, S!G!NoCall, G!NoCall
  <2>2. call[c] \in CommandCalls /\ call[c] \in Signups \cup Externals
    BY <1>0, <2>1, CallOf, Places DEF TypeInv
  <2>3. CASE S!G!Returns(c, S!G!Throws)
    BY <1>3, <2>1, <2>3, Steps, Values
  <2>4. CASE S!G!Goes(c, "make")
    <3>1. Gone(call[c], "make") \in CommandCalls
      BY <2>2, GoesOn DEF CommandCalls
    <3> QED  BY <1>4, <2>1, <2>4, <3>1, Steps
  <2>5. CASE /\ S!Known(call[c]) # {}
             /\ S!G!Returns(c, S!G!Id((CHOOSE u \in S!Known(call[c]) : TRUE).pubkey))
    <3> DEFINE v == S!G!Id((CHOOSE u \in S!Known(call[c]) : TRUE).pubkey)
    <3>1. v \in UserAnswers
      BY <2>2, <2>5, KnownUsers, Values DEF TypeInv
    <3>2. To(c, Returned(call[c], v))
      BY <2>5, Steps
    <3> HIDE DEF v
    <3>3. Returned(call[c], v) \in CommandCalls
      BY <2>2, <3>1 DEF Signups, Externals, CommandCalls, Returned
    <3>4. Moves(c, Returned(call[c], v))
      BY <1>0, <2>1, <2>2, <3>2, <3>3, Stays, Moving DEF TypeInv
    <3> QED  BY <1>2, <2>1, <3>4
  <2> QED  BY <1>6, <2>3, <2>4, <2>5 DEF S!FindUser
<1>7. CASE Serve(c) /\ S!addUser(c)
  <2>1. call[c] # G!NoCall /\ call[c].at = "user"
    BY <1>7 DEF S!addUser, S!G!At, S!G!NoCall, G!NoCall
  <2>2. call[c] \in CommandCalls /\ call[c] \in Signups \cup Externals
    BY <1>0, <2>1, CallOf, Places DEF TypeInv
  <2>3. \E u \in Users : \E x \in {"", "ext"} : G!insertUser(c, "count", u, x)
    <3>1. CASE call[c].m = "signup"
      <4>1. call[c].key \in Users
        BY <2>2, <3>1, Methods DEF Signups
      <4> QED  BY <1>7, <3>1, <4>1, SameInsertUser DEF S!addUser
    <3>2. CASE call[c].m # "signup"
      BY <1>7, <3>2, SameInsertUser DEF S!addUser
    <3> QED  BY <3>1, <3>2
  <2>4. /\ UsersOK' /\ \E k : Moves(c, k)
        /\ UNCHANGED <<wallets, made, experts, top, spaced>>
    BY <1>0, <2>1, <2>2, <2>3, InsertUserRows
  <2>5. /\ wallets' = wallets /\ made' = made /\ clock' = clock
        /\ UNCHANGED <<experts, top, spaced>>
    BY <1>1, <2>4
  <2>6. WalletsOK'
    BY <2>5 DEF TypeInv, WalletsOK
  <2>7. ExpertsOK'
    BY <1>0, <2>5, ExpertsStay DEF TypeInv
  <2>8. made <= made' /\ srv' \in {"down", "starting", "up", "stopped"}
    BY <1>0, <1>1, <2>5
  <2> QED  BY <1>0, <1>1, <2>4, <2>6, <2>7, <2>8, TypeSteps
<1>8. CASE Serve(c) /\ S!WalletMade(c)
  <2>1. call[c] # G!NoCall /\ call[c].at = "make" /\ UNCHANGED S!registryVars
    BY <1>8 DEF S!WalletMade, S!G!At, S!G!NoCall, G!NoCall
  <2>2. call[c] \in CommandCalls /\ call[c] \in InsertWallets \cup Signups \cup Externals
    BY <1>0, <2>1, CallOf, Places DEF TypeInv
  <2>3. CASE call[c].m = "insertWallet" /\ S!G!Goes(c, "count")
    <3>1. Gone(call[c], "count") \in CommandCalls
      BY <2>2, <2>3, Methods, GoesOn DEF CommandCalls
    <3> QED  BY <1>4, <2>1, <2>3, <3>1, Steps
  <2>4. CASE call[c].m # "insertWallet" /\ S!G!Goes(c, "user")
    <3>1. call[c] \in Signups \cup Externals
      BY <2>2, <2>4 DEF InsertWallets
    <3>2. Gone(call[c], "user") \in CommandCalls
      BY <2>2, <3>1, GoesOn DEF CommandCalls
    <3> QED  BY <1>4, <2>1, <2>4, <3>2, Steps
  <2> QED  BY <1>8, <2>3, <2>4 DEF S!WalletMade
<1>9. CASE Serve(c) /\ S!Bonus(c)
  <2>1. call[c] # G!NoCall /\ call[c].at = "bonus" /\ UNCHANGED S!registryVars
    BY <1>9 DEF S!Bonus, S!G!At, S!G!NoCall, G!NoCall
  <2>2. call[c] \in CommandCalls /\ call[c] \in Externals
    BY <1>0, <2>1, CallOf, Places DEF TypeInv
  <2>3. S!G!Id(call[c].user) \in UserAnswers
    BY <2>2, Values DEF Externals
  <2>4. To(c, Returned(call[c], S!G!Id(call[c].user)))
    BY <1>9, Steps DEF S!Bonus, G!Id, S!G!Id
  <2>5. Returned(call[c], S!G!Id(call[c].user)) \in CommandCalls
    BY <2>2, <2>3 DEF Externals, CommandCalls, Returned
  <2>6. Moves(c, Returned(call[c], S!G!Id(call[c].user)))
    BY <1>0, <2>1, <2>2, <2>4, <2>5, Stays, Moving DEF TypeInv
  <2> QED  BY <1>2, <2>1, <2>6
<1>10. CASE Fails(c) \/ LoseAnswer(c) \/ WalletService(c)
  <2>1. call[c] # G!NoCall /\ UNCHANGED S!registryVars
    BY <1>10 DEF Fails, LoseAnswer, WalletService, S!Unreachable, S!WalletNotMade, G!At, S!G!At, S!G!NoCall, G!NoCall
  <2>2. \E v \in Plain : To(c, Returned(call[c], v))
    BY <1>10, Steps, Values DEF Fails, LoseAnswer, WalletService, S!Unreachable, S!WalletNotMade
  <2> QED  BY <1>3, <2>1, <2>2
<1> QED  BY <1>5, <1>6, <1>7, <1>8, <1>9, <1>10 DEF Serve, S!Handle

\* One call is replaced.
LEMMA CallReplaced ==
    ASSUME CallsOK, NEW p \in Processes, NEW k, To(p, k), UNCHANGED <<clock, made>>,
           \/ k = G!NoCall
           \/ /\ k \in CommandCalls
              /\ p = Server => k \in OpenCalls
              /\ k.at \notin {"insertExpert", "updateExpert", "disabled"}
    PROVE  CallsOK' /\ call'[p] = k /\ \A q \in Processes \ {p} : call'[q] = call[q]
<1>1. DOMAIN call' = Processes /\ call'[p] = k /\ \A q \in Processes \ {p} : call'[q] = call[q]
  BY DEF CallsOK, To
<1>2. call'[Server] \in OpenCalls \cup {G!NoCall}
  BY <1>1 DEF CallsOK, Processes
<1>3. \A c \in Commands : call'[c] \in CommandCalls \cup {G!NoCall}
  BY <1>1 DEF CallsOK, Processes
<1>4. \A q \in Processes : call'[q] # G!NoCall => Stamped(call'[q], clock', made')
  BY <1>1 DEF CallsOK, Stamped
<1> QED  BY <1>1, <1>2, <1>3, <1>4 DEF CallsOK, G!NoCall

LEMMA ServerIsNoCommand == Server \in Processes /\ Server \notin Commands /\ Commands \subseteq Processes
BY DEF Server, Processes, Commands

LEMMA OpeningCall ==
    ASSUME NEW u \in Users \cup {Test}, NEW key \in Users \cup {Test, ""}
    PROVE  /\ S!G!Call("initDatabase", "open", u, key, S!G!NoWallet) \in OpenCalls
           /\ C!G!Call("initDatabase", "open", u, key, C!G!NoWallet) \in OpenCalls
           /\ S!G!Call("initDatabase", "open", u, key, S!G!NoWallet).at = "open"
           /\ C!G!Call("initDatabase", "open", u, key, C!G!NoWallet).at = "open"
           /\ C!G!Call("initDatabase", "open", u, key, C!G!NoWallet).m = "initDatabase"
<1>1. C!G!NoWallet \in WalletRows /\ S!G!NoWallet = C!G!NoWallet
  BY EmptyRows DEF S!G!NoWallet, C!G!NoWallet
<1> QED
  BY <1>1 DEF S!G!Call, C!G!Call, OpenCalls, S!G!Null, C!G!Null, Plain

LEMMA ProcessTypes ==
    ASSUME TypeInv, Process
    PROVE  TypeInv' /\ call'[Server] = (IF srv = "down" THEN S!G!Call("initDatabase", "open", Test, Test, S!G!NoWallet)
                                        ELSE G!NoCall)
           /\ \A c \in Commands : call'[c] = call[c]
<1> USE DEF Process, Elsewhere, monitorVars, historyVars, S!registryVars, S!Server, Server
<1>1. UNCHANGED <<clock, job, shared, cursor, seen, joined, tables, users, usersNew, wallets, made, experts, top, spaced>>
  BY DEF S!constructor, S!start
<1> DEFINE k == IF srv = "down" THEN S!G!Call("initDatabase", "open", Test, Test, S!G!NoWallet) ELSE G!NoCall
<1>2. To(Server, k)
  BY DEF S!constructor, S!start, To, S!G!NoCall, G!NoCall
<1>3. \/ k = G!NoCall
      \/ k \in OpenCalls /\ k.at = "open"
  BY OpeningCall
<1> HIDE DEF k
<1>4. CallsOK' /\ call'[Server] = k /\ \A q \in Processes \ {Server} : call'[q] = call[q]
  BY <1>1, <1>2, <1>3, CallReplaced, ServerIsNoCommand DEF TypeInv, CommandCalls
<1>5. \A c \in Commands : call'[c] = call[c]
  BY <1>4, ServerIsNoCommand
<1>6. srv' \in {"down", "starting", "up", "stopped"}
  BY DEF S!constructor, S!start
<1>7. JobsOK'
  BY <1>1, <1>5, <1>6 DEF TypeInv, JobsOK, Suits, C!Far, G!NoCall
<1>8. UsersOK' /\ WalletsOK' /\ ExpertsOK' /\ MonitorOK'
  BY <1>1 DEF TypeInv, UsersOK, WalletsOK, ExpertsOK, MonitorOK
<1> QED  BY <1>4, <1>5, <1>7, <1>8 DEF TypeInv, k

LEMMA CrashTypes ==
    ASSUME TypeInv, CrashServer
    PROVE  /\ TypeInv' /\ call'[Server] = G!NoCall
           /\ \A c \in Commands : \/ call'[c] = call[c]
                                  \/ call[c] # G!NoCall /\ call'[c] = Returned(call[c], [is |-> "broken"])
           /\ \A c \in Commands : ServedByServer(c) /\ call[c] # G!NoCall
                => call'[c] = Returned(call[c], [is |-> "broken"])
<1> USE DEF CrashServer, ServerFault, Fault, monitorVars, S!registryVars
<1>1. UNCHANGED <<clock, job, shared, cursor, seen, joined, tables, users, usersNew, wallets, made, experts, top, spaced>>
      /\ srv' = "down"
  BY DEF S!Crash
<1>2. DOMAIN call = Processes
  BY DEF TypeInv, CallsOK
<1>3. DOMAIN call' = Processes /\ call'[Server] = G!NoCall
  BY <1>2, ServerIsNoCommand DEF S!Crash, S!Server, Server, S!G!NoCall, G!NoCall
<1>4. ASSUME NEW c \in Commands
      PROVE  IF ServedByServer(c) /\ call[c] # G!NoCall THEN call'[c] = Returned(call[c], [is |-> "broken"])
             ELSE call'[c] = call[c]
  <2>1. c # S!Server /\ c \in DOMAIN call
    BY <1>2, ServerIsNoCommand DEF S!Server, Server
  <2>2. call' = [p \in DOMAIN call |->
          IF p = S!Server THEN S!G!NoCall
          ELSE IF p \in {d \in Commands : ServedByServer(d)} /\ call[p] # S!G!NoCall
               THEN S!Status(call[p], "broken") ELSE call[p]]
    BY DEF S!Crash
  <2>3. call'[c] = IF c \in {d \in Commands : ServedByServer(d)} /\ call[c] # S!G!NoCall
                   THEN S!Status(call[c], "broken") ELSE call[c]
    BY <2>1, <2>2
  <2> QED  BY <2>3 DEF S!Status, Returned, S!G!NoCall, G!NoCall
<1>5. ASSUME NEW c \in Commands, call'[c] # call[c]
      PROVE  /\ call[c] # G!NoCall /\ call[c] \in CommandCalls
             /\ call'[c] = Returned(call[c], [is |-> "broken"])
             /\ call'[c] \in CommandCalls /\ call'[c].m = call[c].m /\ call'[c].row = call[c].row
             /\ call'[c].at = "done"
  <2>1. call[c] # G!NoCall /\ call'[c] = Returned(call[c], [is |-> "broken"])
    BY <1>4, <1>5
  <2>2. call[c] \in CommandCalls
    BY <2>1, CallOf, ServerIsNoCommand DEF TypeInv
  <2>3. [is |-> "broken"] \in Plain
    BY Values
  <2> QED  BY <2>1, <2>2, <2>3, Stays
<1>6. \A c \in Commands : call'[c] \in CommandCalls \cup {G!NoCall}
  BY <1>5 DEF TypeInv, CallsOK
<1>7. ASSUME NEW p \in Processes, call'[p] # G!NoCall PROVE Stamped(call'[p], clock', made')
  <2>1. p \in Commands
    BY <1>3, <1>7 DEF Processes
  <2>2. CASE call'[p] = call[p]
    BY <1>1, <1>7, <2>2 DEF TypeInv, CallsOK, Stamped, G!NoCall
  <2>3. CASE call'[p] # call[p]
    BY <1>5, <2>1, <2>3 DEF Stamped
  <2> QED  BY <2>2, <2>3
<1>8. CallsOK'
  BY <1>3, <1>6, <1>7 DEF CallsOK, G!NoCall
<1>9. ASSUME NEW c \in Commands
      PROVE  /\ call'[c] = G!NoCall <=> call[c] = G!NoCall
             /\ call[c] # G!NoCall => call'[c].m = call[c].m /\ call'[c].row = call[c].row
  BY <1>5, Methods
<1>10. JobsOK'
  BY <1>1, <1>9 DEF TypeInv, JobsOK, Suits, C!Far, G!NoCall
<1>11. UsersOK' /\ WalletsOK' /\ ExpertsOK' /\ MonitorOK'
  BY <1>1 DEF TypeInv, UsersOK, WalletsOK, ExpertsOK, MonitorOK
<1>12. TypeInv'
  BY <1>8, <1>10, <1>11 DEF TypeInv
<1> QED  BY <1>3, <1>4, <1>12

LEMMA StopTypes ==
    ASSUME TypeInv, StopServer
    PROVE  TypeInv'
<1>1. UNCHANGED <<clock, job, call, shared, cursor, seen, joined, tables, users, usersNew, wallets, made, experts, top, spaced>>
      /\ srv' = "stopped"
  BY DEF StopServer, ServerFault, Fault, monitorVars, S!registryVars, S!stop
<1>2. UsersOK' /\ WalletsOK' /\ ExpertsOK' /\ MonitorOK'
  BY <1>1 DEF TypeInv, UsersOK, WalletsOK, ExpertsOK, MonitorOK
<1>3. CallsOK'
  BY <1>1 DEF TypeInv, CallsOK, Stamped
<1>4. JobsOK'
  BY <1>1 DEF TypeInv, JobsOK
<1> QED  BY <1>2, <1>3, <1>4 DEF TypeInv

LEMMA KillTypes ==
    ASSUME TypeInv, NEW c \in Commands, KillCommand(c)
    PROVE  TypeInv'
<1>1. UNCHANGED <<clock, srv, shared, cursor, seen, joined, tables, users, usersNew, wallets, made, experts, top, spaced>>
      /\ job' = [job EXCEPT ![c] = NoJob] /\ To(c, G!NoCall)
  BY DEF KillCommand, Fault, monitorVars, registryVars, To
<1>2. UsersOK' /\ WalletsOK' /\ ExpertsOK' /\ MonitorOK'
  BY <1>1 DEF TypeInv, UsersOK, WalletsOK, ExpertsOK, MonitorOK
<1>3. CallsOK' /\ call'[c] = G!NoCall /\ \A q \in Processes \ {c} : call'[q] = call[q]
  BY <1>1, CallReplaced, ServerIsNoCommand DEF TypeInv
<1>4. JobsOK'
  <2>1. job' \in [Commands -> Jobs[shared'] \cup {NoJob}]
    BY <1>1 DEF TypeInv, JobsOK
  <2>2. job'[c] = NoJob /\ \A d \in Commands \ {c} : job'[d] = job[d] /\ call'[d] = call[d]
    BY <1>1, <1>3, ServerIsNoCommand DEF TypeInv, JobsOK
  <2> QED  BY <1>1, <1>3, <2>1, <2>2 DEF TypeInv, JobsOK, Suits, C!Far, G!NoCall
<1> QED  BY <1>2, <1>3, <1>4 DEF TypeInv

\* A job and its first or next call.
LEMMA JobReplaced ==
    ASSUME TypeInv, NEW c \in Commands, NEW j \in Jobs[shared] \cup {NoJob}, NEW k,
           job' = [job EXCEPT ![c] = j], To(c, k), j = NoJob <=> k = G!NoCall,
           k # G!NoCall => Begun(j, k), joined' \subseteq Users,
           UNCHANGED <<clock, srv, shared, cursor, seen, tables, users, usersNew, wallets, made, experts, top, spaced>>
    PROVE  TypeInv' /\ call'[c] = k /\ \A q \in Processes \ {c} : call'[q] = call[q]
<1>1. c \in Processes /\ c # Server
  BY ServerIsNoCommand
<1>2. UsersOK' /\ WalletsOK' /\ ExpertsOK' /\ MonitorOK'
  BY DEF TypeInv, UsersOK, WalletsOK, ExpertsOK, MonitorOK
<1>3. k # G!NoCall => k \in CommandCalls /\ k.at \notin {"insertExpert", "updateExpert", "disabled"} /\ Suits(j, k)
  BY DEF Begun, Early
<1>4. CallsOK' /\ call'[c] = k /\ \A q \in Processes \ {c} : call'[q] = call[q]
  BY <1>1, <1>3, CallReplaced DEF TypeInv
<1>5. JobsOK'
  <2>1. job' \in [Commands -> Jobs[shared'] \cup {NoJob}]
    BY DEF TypeInv, JobsOK
  <2>2. job'[c] = j /\ \A d \in Commands \ {c} : job'[d] = job[d] /\ call'[d] = call[d]
    BY <1>4, ServerIsNoCommand DEF TypeInv, JobsOK
  <2>3. ASSUME NEW d \in Commands PROVE job'[d] = NoJob <=> call'[d] = G!NoCall
    BY <1>4, <2>2 DEF TypeInv, JobsOK
  <2>4. ASSUME NEW d \in Commands, job'[d] # NoJob PROVE Suits(job'[d], call'[d])
    BY <1>3, <1>4, <2>2, <2>4 DEF TypeInv, JobsOK
  <2> QED  BY <2>1, <2>3, <2>4 DEF TypeInv, JobsOK, G!NoCall, Suits, C!Far
<1> QED  BY <1>2, <1>4, <1>5 DEF TypeInv

LEMMA NoJobIsNone == ASSUME NEW j, GoodJob(j) PROVE j # NoJob
<1>1. j.cmd \in C!Cmds
  BY DEF GoodJob
<1>2. j.cmd # "none"
  BY <1>1 DEF C!Cmds
<1> QED  BY <1>2 DEF NoJob

LEMMA BeginTypes ==
    ASSUME TypeInv, NEW c \in Commands, Begin(c)
    PROVE  /\ TypeInv' /\ \A q \in Processes \ {c} : call'[q] = call[q]
           /\ \E j \in Jobs[shared] : job'[c] = j /\ Begun(j, call'[c])
<1> PICK j \in Jobs[shared] :
      job' = [job EXCEPT ![c] = j] /\ \E k \in C!Opens(j) : call' = [call EXCEPT ![c] = k]
  BY DEF Begin
<1>1. PICK k \in C!Opens(j) : call' = [call EXCEPT ![c] = k]
  OBVIOUS
<1>2. UNCHANGED <<clock, srv, shared, cursor, seen, joined, tables, users, usersNew, wallets, made, experts, top, spaced>>
  BY DEF Begin, registryVars, monitorVars, historyVars
<1>3. GoodJob(j) /\ shared \in BOOLEAN
  BY JobsAreGood DEF TypeInv, JobsOK
<1>4. Begun(j, k)
  <2>1. CASE C!Far(j)
    BY <1>3, <2>1, FirstCalls DEF C!Opens
  <2>2. CASE ~C!Far(j)
    <3>1. j.user \in Users
      BY <1>3 DEF GoodJob
    <3>2. k = C!G!Call("initDatabase", "open", j.user, "", C!G!NoWallet)
      BY <2>2 DEF C!Opens
    <3>3. k \in OpenCalls /\ k.at = "open" /\ k.m = "initDatabase"
      BY <3>1, <3>2, OpeningCall
    <3>4. k \in CommandCalls /\ k # G!NoCall
      BY <3>3, Methods DEF CommandCalls
    <3> QED  BY <2>2, <3>3, <3>4 DEF Begun, Early, Suits, WalletGets
  <2> QED  BY <2>1, <2>2
<1>5. j # NoJob /\ k # G!NoCall
  BY <1>3, <1>4, NoJobIsNone DEF Begun, Early
<1>6. joined' \subseteq Users
  BY <1>2 DEF TypeInv, MonitorOK
<1>7. TypeInv' /\ call'[c] = k /\ \A q \in Processes \ {c} : call'[q] = call[q]
  BY <1>1, <1>2, <1>4, <1>5, <1>6, JobReplaced DEF To
<1>8. job'[c] = j
  BY <1>1 DEF TypeInv, JobsOK
<1> QED  BY <1>4, <1>7, <1>8

\* What a command does after a call that returned.
LEMMA ContinueTypes ==
    ASSUME TypeInv, NEW c \in Commands, Continue(c)
    PROVE  /\ TypeInv' /\ \A q \in Processes \ {c} : call'[q] = call[q]
           /\ call[c] # G!NoCall /\ call[c].at = "done"
           /\ \/ job'[c] = NoJob /\ call'[c] = G!NoCall
              \/ job'[c] = job[c] /\ job[c] # NoJob /\ Begun(job[c], call'[c])
           /\ \/ joined' = joined
              \/ \E u \in Users : SignedUp(c, u) /\ joined' = joined \cup {u}
<1> DEFINE v == C!Result(job[c], call[c])
<1>1. call[c] # G!NoCall /\ call[c].at = "done" /\ c \in Processes
  BY ServerIsNoCommand DEF Continue, G!At
<1>2. call[c] \in CommandCalls /\ job[c] # NoJob /\ job[c] \in Jobs[shared] /\ Suits(job[c], call[c])
      /\ shared \in BOOLEAN
  BY <1>1, CallOf DEF TypeInv, JobsOK
<1>3. GoodJob(job[c])
  BY <1>2, JobsAreGood
<1>4. PICK k \in C!Follows(job[c], call[c], v) :
        /\ call' = [call EXCEPT ![c] = k]
        /\ job' = IF k = G!NoCall THEN [job EXCEPT ![c] = NoJob] ELSE job
  BY DEF Continue
<1>5. k = G!NoCall \/ Begun(job[c], k)
  BY <1>2, <1>3, NextCalls
<1>6. \/ joined' = joined
      \/ \E u \in Users : SignedUp(c, u) /\ joined' = joined \cup {u}
  <2>1. CASE job[c].cmd = "signup" /\ v.is = "id"
    <3>1. call[c].m \in {"initDatabase", "signup"}
      BY <1>2, <2>1 DEF Suits
    <3>2. CASE call[c].m = "signup"
      <4>1. v = call[c].val /\ v.id \in Users
        BY <1>2, <2>1, <3>2, Answers
      <4>2. call[c] \in Signups
        BY <1>2, <3>2, Methods
      <4>3. call[c].val \in Plain \cup [is : {"id"}, id : Users]
        BY <4>2 DEF Signups, UserAnswers
      <4>4. v = [is |-> "id", id |-> v.id]
        BY <2>1, <4>1, <4>3 DEF Plain
      <4>5. joined' = joined \cup {v.id}
        BY <2>1 DEF Continue
      <4> HIDE DEF v
      <4>6. SignedUp(c, v.id)
        BY <1>1, <3>2, <4>1, <4>4 DEF SignedUp, G!Id
      <4> QED  BY <4>1, <4>5, <4>6
    <3>3. CASE call[c].m = "initDatabase"
      <4>1. call[c].val \in Plain
        BY <1>2, <3>3, Methods DEF OpenCalls
      <4>2. v = call[c].val
        <5>1. ~C!Far(job[c])
          BY <1>2, <3>3 DEF Suits
        <5> QED  BY <5>1 DEF C!Result, C!Local
      <4> QED  BY <2>1, <4>1, <4>2 DEF Plain
    <3> QED  BY <3>1, <3>2, <3>3
  <2>2. CASE ~(job[c].cmd = "signup" /\ v.is = "id")
    BY <2>2 DEF Continue
  <2> QED  BY <2>1, <2>2
<1> HIDE DEF v
<1> DEFINE j == IF k = G!NoCall THEN NoJob ELSE job[c]
<1>7. UNCHANGED <<clock, srv, shared, cursor, seen, tables, users, usersNew, wallets, made, experts, top, spaced>>
  BY DEF Continue, registryVars, monitorVars
<1>8. job' = [job EXCEPT ![c] = j] /\ j \in Jobs[shared] \cup {NoJob}
  <2>1. job = [job EXCEPT ![c] = job[c]]
    BY DEF TypeInv, JobsOK
  <2> QED  BY <1>2, <1>4, <2>1
<1>9. j = NoJob <=> k = G!NoCall
  BY <1>2
<1>10. k # G!NoCall => Begun(j, k)
  BY <1>5
<1>11. joined' \subseteq Users
  BY <1>6 DEF TypeInv, MonitorOK
<1>12. To(c, k)
  BY <1>4 DEF To
<1> HIDE DEF j
<1>13. TypeInv' /\ call'[c] = k /\ \A q \in Processes \ {c} : call'[q] = call[q]
  BY <1>7, <1>8, <1>9, <1>10, <1>11, <1>12, JobReplaced
<1>14. job'[c] = j
  BY <1>8 DEF TypeInv, JobsOK
<1> QED  BY <1>1, <1>2, <1>5, <1>6, <1>13, <1>14 DEF j

\* The greatest timestamp of a page is one of the page's.
LEMMA GreatestOfPage ==
    ASSUME ExpertsOK, NEW page \in SUBSET Experts, page # {}
    PROVE  \E e \in page : Greatest(page) = experts[e].at
<1> DEFINE gaps == {clock - experts[e].at : e \in page}
           ats == {experts[e].at : e \in page}
<1>1. \A e \in page : experts[e].at \in 0..clock
  BY DEF ExpertsOK
<1>2. clock \in Nat
  BY DEF ExpertsOK
<1>3. gaps \in SUBSET Nat /\ gaps # {}
  BY <1>1, <1>2
<1>4. PICK g \in gaps : \A h \in gaps : g <= h
  BY <1>3, LeastElement
<1>5. PICK e \in page : g = clock - experts[e].at
  BY <1>4
<1>6. \A f \in page : experts[f].at <= experts[e].at
  <2>1. ASSUME NEW f \in page PROVE experts[f].at <= experts[e].at
    <3>1. clock - experts[f].at \in gaps
      OBVIOUS
    <3>2. clock - experts[e].at <= clock - experts[f].at
      BY <1>4, <1>5, <3>1
    <3> QED  BY <1>1, <1>2, <3>2
  <2> QED  BY <2>1
<1>7. \E t \in ats : \A f \in page : experts[f].at <= t
  BY <1>6
<1>8. Greatest(page) \in ats
  BY <1>7 DEF Greatest
<1> QED  BY <1>8

LEMMA MaxClockIsNat == MaxClock \in Nat /\ MaxClock >= Start
BY PlatformAssumption

LEMMA MonitorTypes ==
    ASSUME TypeInv, monitorExperts \/ Tick
    PROVE  TypeInv'
<1>1. UNCHANGED <<call, srv, job, shared, joined, tables, users, usersNew, wallets, made, experts, top, spaced>>
  BY DEF monitorExperts, Tick, registryVars, historyVars
<1>2. clock \in Nat /\ clock' \in Nat /\ clock <= clock' /\ clock' <= MaxClock /\ made \in Nat
  BY MaxClockIsNat DEF TypeInv, ExpertsOK, MonitorOK, monitorExperts, Tick
<1>3. UsersOK' /\ WalletsOK' /\ ExpertsOK'
  BY <1>1, <1>2, ExpertsStay DEF TypeInv, UsersOK, WalletsOK
<1>4. ASSUME NEW p \in Processes, call[p] # G!NoCall PROVE Stamped(call[p], clock', made)
  <2>1. Stamped(call[p], clock, made) /\ call[p] \in CommandCalls
    BY <1>4, CallOf DEF TypeInv
  <2>2. call[p].at \in {"insertExpert", "updateExpert", "disabled"} => call[p].row.at \in Nat
    BY <2>1, Places DEF PutExperts, DisableExperts, ExpertRows
  <2> QED  BY <1>2, <2>1, <2>2 DEF Stamped
<1>5. CallsOK'
  BY <1>1, <1>4 DEF TypeInv, CallsOK, G!NoCall
<1>6. JobsOK'
  BY <1>1 DEF TypeInv, JobsOK, Suits, C!Far, G!NoCall
<1>7. cursor' \in 0..(MaxClock + 1) /\ seen' \in [Experts -> 0..MaxClock]
  <2>1. CASE Tick
    BY <2>1 DEF TypeInv, MonitorOK, Tick, monitorVars
  <2>2. CASE monitorExperts
    <3>1. PICK page \in G!listExpertsAfter(cursor) \ {{}} :
            /\ seen' = [e \in Experts |-> IF e \in page THEN experts[e].at ELSE seen[e]]
            /\ cursor' = Greatest(page) + 1
      BY <2>2 DEF monitorExperts
    <3>2. page \in SUBSET Experts /\ page # {}
      BY DEF G!listExpertsAfter
    <3>3. \A e \in Experts : experts[e].at \in 0..MaxClock
      <4>1. \A e \in Experts : experts[e].at \in 0..clock
        BY DEF TypeInv, ExpertsOK
      <4>2. clock <= MaxClock
        BY DEF TypeInv, MonitorOK
      <4> QED  BY <1>2, <4>1, <4>2, MaxClockIsNat
    <3>4. Greatest(page) \in 0..MaxClock
      BY <3>2, <3>3, GreatestOfPage DEF TypeInv
    <3>5. \A e \in Experts : seen[e] \in 0..MaxClock
      BY DEF TypeInv, MonitorOK
    <3>6. seen' \in [Experts -> 0..MaxClock]
      BY <3>1, <3>3, <3>5
    <3> QED  BY <3>1, <3>4, <3>6, MaxClockIsNat
  <2> QED  BY <2>1, <2>2
<1>8. MonitorOK'
  BY <1>1, <1>2, <1>7 DEF TypeInv, MonitorOK
<1> QED  BY <1>3, <1>5, <1>6, <1>8 DEF TypeInv

LEMMA InitTypes ==
    ASSUME Init
    PROVE  TypeInv
<1>1. Owner \in Users /\ Own \in Experts /\ "main" \in Names /\ Test \notin Users
  BY PlatformAssumption
<1>2. UsersOK
  <2> DEFINE o == [pubkey |-> Owner, ext |-> ""]
  <2>1. /\ tables = {"users"} /\ usersNew = {}
        /\ users = {o} \/ users = {o, G!TestRow}
    BY DEF Init
  <2>2. o \in UserRows /\ G!TestRow \in UserRows /\ o.pubkey # G!TestRow.pubkey
    BY <1>1 DEF UserRows, G!TestRow
  <2> HIDE DEF o
  <2>3. users \subseteq UserRows
    BY <2>1, <2>2
  <2>4. \A u, v \in users : u.pubkey = v.pubkey => u = v
    BY <2>1, <2>2
  <2> QED  BY <2>1, <2>3, <2>4 DEF UsersOK
<1>3. WalletsOK
  <2>1. Main \in [id : 1..1, name : Names, dflt : BOOLEAN, user : Users]
    <3>1. 1 \in 1..1
      OBVIOUS
    <3> QED  BY <1>1, <3>1 DEF Main
  <2>2. wallets = {Main} /\ made = 1
    BY DEF Init
  <2> QED  BY <2>1, <2>2 DEF WalletsOK
<1>4. clock = 3 /\ made = 1 /\ top = 1 /\ spaced = {Own}
  BY DEF Init, Start
<1>5. ExpertsOK
  <2> DEFINE Rs == [wallet : 0..1, user : Users \cup {Test}, disabled : BOOLEAN, at : 0..3]
             r == [wallet |-> 1, user |-> Owner, disabled |-> FALSE, at |-> 1]
  <2>1. 0 \in 0..1 /\ 1 \in 0..1 /\ 0 \in 0..3 /\ 1 \in 0..3
    OBVIOUS
  <2>2. r \in Rs
    BY <1>1, <2>1
  <2>3. G!NoExpert \in Rs
    BY <2>1 DEF G!NoExpert
  <2>4. experts = [e \in Experts |-> IF e = Own THEN r ELSE G!NoExpert]
    BY DEF Init
  <2> HIDE DEF Rs, r
  <2>5. experts \in [Experts -> Rs]
    BY <2>2, <2>3, <2>4
  <2>6. ExpertsOK
    BY <1>1, <1>4, <2>5 DEF ExpertsOK, Rs
  <2> QED  BY <2>6
<1>6. CallsOK
  BY ServerIsNoCommand DEF CallsOK, Init
<1>7. JobsOK
  BY ServerIsNoCommand DEF JobsOK, Init
<1>8. MonitorOK
  <2>1. 0 \in 0..(MaxClock + 1) /\ 0 \in 0..MaxClock /\ clock <= MaxClock
    BY <1>4, MaxClockIsNat DEF Start
  <2>2. cursor = 0 /\ seen = [e \in Experts |-> 0] /\ joined = {Owner}
    BY DEF Init
  <2>3. seen \in [Experts -> 0..MaxClock]
    BY <2>1, <2>2
  <2> QED  BY <1>1, <2>1, <2>2, <2>3 DEF MonitorOK
<1> QED  BY <1>2, <1>3, <1>5, <1>6, <1>7, <1>8 DEF TypeInv

LEMMA NextTypes ==
    ASSUME TypeInv, [Next]_vars
    PROVE  TypeInv'
<1>1. CASE Next
  <2>1. CASE Process
    BY <2>1, ProcessTypes
  <2>2. CASE CrashServer
    BY <2>2, CrashTypes
  <2>3. CASE StopServer
    BY <2>3, StopTypes
  <2>4. CASE monitorExperts \/ Tick
    BY <2>4, MonitorTypes
  <2>5. CASE \E p \in Processes : Run(p)
    BY <2>5, RunTypes
  <2>6. CASE \E c \in Commands : Begin(c)
    BY <2>6, BeginTypes
  <2>7. CASE \E c \in Commands : Continue(c)
    BY <2>7, ContinueTypes
  <2>8. CASE \E c \in Commands : Serve(c) \/ Fails(c) \/ LoseAnswer(c) \/ WalletService(c)
    BY <2>8, ServeTypes
  <2>9. CASE \E c \in Commands : AddUser(c)
    BY <2>9, AddUserTypes
  <2>10. CASE \E c \in Commands : KillCommand(c)
    BY <2>10, KillTypes
  <2> QED
    BY <1>1, <2>1, <2>2, <2>3, <2>4, <2>5, <2>6, <2>7, <2>8, <2>9, <2>10, ServerIsNoCommand DEF Next
<1>2. CASE UNCHANGED vars
  <2>1. UNCHANGED <<clock, job, call, srv, shared, cursor, seen, joined, tables, users, usersNew, wallets, made, experts, top, spaced>>
    BY <1>2 DEF vars, registryVars, monitorVars, historyVars
  <2>2. UsersOK' /\ WalletsOK' /\ ExpertsOK' /\ MonitorOK'
    BY <2>1 DEF TypeInv, UsersOK, WalletsOK, ExpertsOK, MonitorOK
  <2>3. CallsOK'
    BY <2>1 DEF TypeInv, CallsOK, Stamped
  <2>4. JobsOK'
    BY <2>1 DEF TypeInv, JobsOK
  <2> QED  BY <2>2, <2>3, <2>4 DEF TypeInv
<1> QED  BY <1>1, <1>2

LEMMA TypeInvTypes ==
    ASSUME TypeInv
    PROVE  TypeOK
<1>1. /\ users \cup usersNew \subseteq [pubkey : Users \cup {Test}, ext : {"", "ext"}]
      /\ \A u, v \in users : u.pubkey = v.pubkey => u = v
      /\ tables \subseteq {"users", "users_new"}
  <2>1. G!TestRow \in [pubkey : Users \cup {Test}, ext : {"", "ext"}]
    BY DEF G!TestRow
  <2>2. UserRows \subseteq [pubkey : Users \cup {Test}, ext : {"", "ext"}]
    BY <2>1 DEF UserRows
  <2> QED  BY <2>2 DEF TypeInv, UsersOK
<1>2. G!TypeOK
  BY <1>1 DEF TypeInv, WalletsOK, ExpertsOK, G!TypeOK
<1> QED  BY <1>2 DEF TypeInv, JobsOK, MonitorOK, TypeOK

\* Whoever shares the file, and whatever fails: the rows of the registry, the calls under
\* way and the monitor's cursor are well formed; no two wallets have an id or a name in
\* common, no two users a pubkey, and no row is newer than the clock.
THEOREM TypeCorrect == Spec => []TypeOK
<1>1. Init => TypeInv
  BY InitTypes
<1>2. TypeInv /\ [Next]_vars => TypeInv'
  BY NextTypes
<1>3. TypeInv => TypeOK
  BY TypeInvTypes
<1> QED  BY <1>1, <1>2, <1>3, PTL DEF Spec

-----------------------------------------------------------------------------
(* As long as the server is the only writer, its statements are not         *)
(* interleaved: what a handler has found holds until it writes.             *)

Waits(k) == k = G!NoCall \/ k.at \in {"sent", "make", "bonus", "done"}

LEMMA RunsOrWaits ==
    /\ \A p : S!Runs(p) <=> ~Waits(call[p])
    /\ \A p : S!Runs(p)' <=> ~Waits(call'[p])
BY DEF S!Runs, Waits, S!G!NoCall, G!NoCall

\* Every command is a request.
LEMMA AllFar ==
    ASSUME TypeInv, ~shared
    PROVE  \A c \in Commands : call[c] # G!NoCall =>
              /\ job[c] # NoJob /\ C!Far(job[c]) /\ ServedByServer(c)
              /\ call[c].m \notin {"initDatabase", "insertUser"}
<1>1. shared = FALSE
  BY DEF TypeInv, JobsOK
<1>2. ASSUME NEW c \in Commands, call[c] # G!NoCall
      PROVE  /\ job[c] # NoJob /\ C!Far(job[c]) /\ ServedByServer(c)
             /\ call[c].m \notin {"initDatabase", "insertUser"}
  <2>1. job[c] # NoJob /\ job[c] \in Jobs[FALSE] /\ Suits(job[c], call[c])
    BY <1>1, <1>2 DEF TypeInv, JobsOK
  <2>2. C!Far(job[c])
    BY <2>1, JobsAreGood
  <2> QED  BY <2>1, <2>2 DEF ServedByServer, Suits
<1> QED  BY <1>2

LEMMA OthersWait ==
    ASSUME TypeInv, ~shared, NEW p \in Processes, Turn(p), call[p] # G!NoCall
    PROVE  \A q \in Processes \ {p} : Waits(call[q])
<1>1. \A q \in Processes : call[q] # G!NoCall => ServedByServer(q)
  BY AllFar DEF Processes, ServedByServer
<1>2. ASSUME NEW q \in Processes \ {p} PROVE Waits(call[q])
  <2>1. CASE call[q] = G!NoCall
    BY <2>1 DEF Waits
  <2>2. CASE call[q] # G!NoCall
    BY <1>1, <2>2, RunsOrWaits DEF Turn
  <2> QED  BY <2>1, <2>2
<1> QED  BY <1>2

\* A process that waits has found nothing.
LEMMA WaitersAreReady ==
    /\ \A p : Waits(call[p]) => Ready(p)
    /\ \A p : Waits(call'[p]) => Ready(p)'
BY DEF Waits, Ready, G!At

\* A statement of one process.
LEMMA AgreeSteps ==
    ASSUME TypeInv, ~shared, NEW p \in Processes, Turn(p), call[p] # G!NoCall, NEW k, To(p, k),
           Ready(p)', OneDefault', PaidWallets'
    PROVE  OneRuns' /\ Agree'
<1>1. \A q \in Processes \ {p} : Waits(call[q]) /\ call'[q] = call[q]
  BY OthersWait DEF TypeInv, CallsOK, To
<1>2. OneRuns'
  BY <1>1, RunsOrWaits DEF OneRuns
<1>3. \A q \in Processes : Ready(q)'
  BY <1>1, WaitersAreReady
<1> QED  BY <1>2, <1>3 DEF Agree

\* A step after which those that moved wait.
LEMMA QuietSteps ==
    ASSUME OneRuns, Agree, UNCHANGED <<wallets, experts>>,
           \A q \in Processes : call'[q] = call[q] \/ Waits(call'[q])
    PROVE  OneRuns' /\ Agree'
<1>1. OneRuns'
  BY RunsOrWaits DEF OneRuns
<1>2. OneDefault' /\ PaidWallets'
  BY DEF Agree, OneDefault, PaidWallets, G!Exists, G!Of
<1>3. ASSUME NEW q \in Processes PROVE Ready(q)'
  <2>1. CASE Waits(call'[q])
    BY <2>1, WaitersAreReady
  <2>2. CASE call'[q] = call[q]
    <3>1. Ready(q)
      BY DEF Agree
    <3> QED  BY <2>2, <3>1 DEF Ready, G!At, G!NoCall, G!Of, G!UsedBy, G!Exists
  <2> QED  BY <2>1, <2>2
<1> QED  BY <1>1, <1>2, <1>3 DEF Agree

\* The server is up when a request is under way in it.
LEMMA BeginsStays ==
    ASSUME TypeInv, Begins, NEW p \in Processes, call[p] # G!NoCall, NEW k, To(p, k), srv' = srv,
           call[p].at \notin {"sent", "done"} \/ (k # G!NoCall => k.at \in {"sent", "done"}),
           p = Server => srv = "starting"
    PROVE  Begins'
<1>1. call'[p] = k /\ \A q \in Processes \ {p} : call'[q] = call[q]
  BY DEF TypeInv, CallsOK, To
<1>2. CASE p = Server
  BY <1>1, <1>2, ServerIsNoCommand DEF Begins, G!NoCall
<1>3. CASE p # Server
  BY <1>1, <1>3, ServerIsNoCommand DEF Begins, G!NoCall
<1> QED  BY <1>2, <1>3

\* Nobody is answered who was not before.
LEMMA SureStays ==
    ASSUME joined' = joined, NEW c, \A d \in Commands \ {c} : call'[d] = call[d],
           \A u \in Users : c \in Commands /\ SignedUp(c, u)' => SignedUp(c, u)
    PROVE  Sure' \subseteq Sure
<1>1. \A d \in Commands \ {c} : \A u \in Users : SignedUp(d, u)' => SignedUp(d, u)
  BY DEF SignedUp, G!NoCall, G!Id
<1> QED  BY <1>1 DEF Sure

LEMMA KeptStays ==
    ASSUME Kept, UNCHANGED <<tables, users, usersNew>>, call'[Server] = call[Server], Sure' \subseteq Sure
    PROVE  Kept'
<1>1. \A at : G!At(Server, at)' <=> G!At(Server, at)
  BY DEF G!At, G!NoCall
<1>2. Rows(users)' = Rows(users) /\ Rows(usersNew)' = Rows(usersNew)
  BY DEF Rows
<1> QED  BY <1>1, <1>2 DEF Kept

\* The wallets of the registry, while the server writes alone.
LEMMA WalletsAgree ==
    ASSUME TypeInv, ~shared, OneRuns, Agree, NEW p \in Processes, Turn(p),
           UNCHANGED G!expertVars,
           G!insertWallet(p) \/ G!updateWallet(p) \/ G!deleteWallet(p)
    PROVE  OneRuns' /\ Agree'
<1>0. call[p] # G!NoCall /\ call[p] \in CommandCalls /\ p \in DOMAIN call
  BY CallOf DEF TypeInv, CallsOK, G!insertWallet, G!updateWallet, G!deleteWallet, G!CountWallets, G!ClearDefault,
     G!InsertWalletRow, G!UnsetDefault, G!UpdateWalletRow, G!CountExperts, G!DeleteWalletRow, G!At
<1>1. experts' = experts
  BY DEF G!expertVars
<1>2. /\ Ready(p) /\ OneDefault /\ PaidWallets
      /\ \A w \in wallets : w.id # 0 /\ w.dflt \in BOOLEAN
  BY DEF Agree, TypeInv, WalletsOK
<1>3. ASSUME NEW k, To(p, k), Ready(p)', OneDefault', PaidWallets' PROVE OneRuns' /\ Agree'
  BY <1>0, <1>3, AgreeSteps
<1>4. ASSUME NEW k, To(p, k) PROVE call'[p] = k
  BY <1>0, <1>4 DEF To
<1>5. ASSUME NEW v, G!Returns(p, v), OneDefault', PaidWallets' PROVE OneRuns' /\ Agree'
  <2>1. To(p, Returned(call[p], v))
    BY <1>5, Steps
  <2>2. Waits(call'[p])
    <3>1. Waits(Returned(call[p], v))
      BY <1>0, Stays DEF Waits
    <3>2. call'[p] = Returned(call[p], v)
      BY <1>4, <2>1
    <3> QED  BY <3>1, <3>2
  <2> QED  BY <1>3, <1>5, <2>1, <2>2, WaitersAreReady
<1>6. ASSUME UNCHANGED wallets PROVE OneDefault' /\ PaidWallets'
  BY <1>1, <1>2, <1>6 DEF OneDefault, PaidWallets, G!Of, G!Exists
<1>7. ASSUME NEW u, NEW i, wallets' = G!Undefault(u, i)
      PROVE  /\ OneDefault' /\ PaidWallets'
             /\ \A w \in wallets' : w.user = u /\ w.dflt => w.id = i
  <2>1. \A w \in wallets' : \E x \in wallets :
          w = IF x.user = u /\ x.id # i THEN [x EXCEPT !.dflt = FALSE] ELSE x
    BY <1>7 DEF G!Undefault
  <2>2. \A w \in wallets' : \E x \in wallets :
          /\ w.id = x.id /\ w.user = x.user
          /\ w.dflt => x.dflt /\ w = x
          /\ w.dflt /\ w.user = u => w.id = i
    BY <2>1 DEF TypeInv, WalletsOK
  <2>3. \A x \in wallets : \E w \in wallets' : w.id = x.id /\ w.user = x.user
    <3>1. ASSUME NEW x \in wallets PROVE \E w \in wallets' : w.id = x.id /\ w.user = x.user
      <4> DEFINE w == IF x.user = u /\ x.id # i THEN [x EXCEPT !.dflt = FALSE] ELSE x
      <4>1. w \in wallets'
        BY <1>7 DEF G!Undefault
      <4>2. w.id = x.id /\ w.user = x.user
        BY DEF TypeInv, WalletsOK
      <4> HIDE DEF w
      <4> QED  BY <4>1, <4>2
    <3> QED  BY <3>1
  <2>4. OneDefault'
    BY <1>2, <2>2 DEF OneDefault
  <2>5. PaidWallets'
    BY <1>1, <1>2, <2>3 DEF PaidWallets, G!Of, G!Exists
  <2> QED  BY <2>2, <2>4, <2>5
<1>8. CASE G!CountWallets(p)
  <2>1. UNCHANGED wallets
    BY <1>8 DEF G!CountWallets, G!walletVars
  <2>2. CASE G!Goes(p, "wallet") /\ ~call[p].row.dflt
    <3>1. To(p, Gone(call[p], "wallet"))
      BY <2>2, Steps
    <3>2. call'[p].at = "wallet" /\ call'[p].row = call[p].row
      BY <1>0, <1>4, <3>1, Stays
    <3>3. Ready(p)'
      BY <2>2, <3>2 DEF Ready, G!At
    <3> QED  BY <1>3, <1>6, <2>1, <3>1, <3>3
  <2>3. CASE call' = [call EXCEPT ![p].at = "clear", ![p].row.dflt = TRUE]
    <3> DEFINE k == [call[p] EXCEPT !.at = "clear", !.row.dflt = TRUE]
    <3>1. To(p, k)
      BY <2>3 DEF To
    <3>2. call'[p].at = "clear"
      <4>1. call[p] \in InsertWallets \cup Signups \cup Externals
        BY <1>0, <1>8, Places DEF G!CountWallets, G!At
      <4>2. k.at = "clear"
        BY <4>1 DEF InsertWallets, Signups, Externals
      <4> QED  BY <1>4, <3>1, <4>2
    <3>3. Ready(p)'
      BY <3>2 DEF Ready, G!At
    <3> QED  BY <1>3, <1>6, <2>1, <3>1, <3>3
  <2> QED  BY <1>8, <2>2, <2>3 DEF G!CountWallets
<1>9. CASE G!ClearDefault(p)
  <2>1. To(p, Gone(call[p], "wallet")) /\ wallets' = G!Undefault(call[p].user, 0)
    BY <1>9, Steps DEF G!ClearDefault
  <2>2. call'[p].at = "wallet" /\ call'[p].user = call[p].user
    <3>1. call[p] \in InsertWallets \cup Signups \cup Externals
      BY <1>0, <1>9, Places DEF G!ClearDefault, G!At
    <3>2. Gone(call[p], "wallet").at = "wallet" /\ Gone(call[p], "wallet").user = call[p].user
      BY <3>1 DEF Gone, InsertWallets, Signups, Externals
    <3> QED  BY <1>4, <2>1, <3>2
  <2>3. OneDefault' /\ PaidWallets' /\ \A w \in wallets' : w.user = call[p].user /\ w.dflt => w.id = 0
    BY <1>7, <2>1
  <2>4. \A w \in wallets' : w.id # 0
    <3>1. WalletsOK'
      BY <1>9, UndefaultRows DEF G!ClearDefault, TypeInv
    <3> QED  BY <3>1 DEF WalletsOK
  <2>5. Ready(p)'
    BY <2>2, <2>3, <2>4 DEF Ready, G!At, G!Of
  <2> QED  BY <1>3, <2>1, <2>3, <2>5
<1>10. CASE G!InsertWalletRow(p)
  <2> DEFINE w == [call[p].row EXCEPT !.id = made + 1, !.user = call[p].user]
  <2>1. wallets' = wallets \/ wallets' = wallets \cup {w}
    BY <1>10 DEF G!InsertWalletRow, G!walletVars
  <2>2. w.user = call[p].user /\ w.dflt = call[p].row.dflt
    <3>1. call[p] \in InsertWallets \cup Signups \cup Externals
      BY <1>0, <1>10, Places DEF G!InsertWalletRow, G!At
    <3>2. call[p].row \in WalletRows
      BY <3>1 DEF InsertWallets, Signups, Externals
    <3> QED  BY <3>2 DEF WalletRows
  <2> HIDE DEF w
  <2>3. call[p].row.dflt => \A x \in wallets : x.user = call[p].user => ~x.dflt
    BY <1>2, <1>10 DEF Ready, G!Of, G!InsertWalletRow
  <2>4. OneDefault' /\ PaidWallets'
    BY <1>1, <1>2, <2>1, <2>2, <2>3 DEF OneDefault, PaidWallets, G!Of, G!Exists
  <2>5. CASE G!Goes(p, "bonus")
    <3>1. To(p, Gone(call[p], "bonus"))
      BY <2>5, Steps
    <3>2. Waits(call'[p])
      BY <1>0, <1>4, <3>1, Stays DEF Waits
    <3> QED  BY <1>3, <2>4, <3>1, <3>2, WaitersAreReady
  <2>6. CASE \E v : G!Returns(p, v)
    BY <1>5, <2>4, <2>6
  <2> QED  BY <1>10, <2>5, <2>6 DEF G!InsertWalletRow
<1>11. CASE G!UnsetDefault(p)
  <2>1. To(p, Gone(call[p], "update")) /\ wallets' = G!Undefault(call[p].row.user, call[p].row.id)
    BY <1>11, Steps DEF G!UnsetDefault
  <2>2. call'[p].at = "update" /\ call'[p].row = call[p].row
    BY <1>0, <1>4, <2>1, Stays
  <2>3. /\ OneDefault' /\ PaidWallets'
        /\ \A w \in wallets' : w.user = call[p].row.user /\ w.dflt => w.id = call[p].row.id
    BY <1>7, <2>1
  <2>4. Ready(p)'
    BY <2>2, <2>3 DEF Ready, G!At, G!Of
  <2> QED  BY <1>3, <2>1, <2>3, <2>4
<1>12. CASE G!UpdateWalletRow(p)
  <2> DEFINE r == call[p].row
             old == {w \in G!Of(r.user) : w.id = r.id}
  <2>1. \E v : G!Returns(p, v)
    BY <1>12 DEF G!UpdateWalletRow
  <2>2. wallets' = wallets \/ (old # {} /\ wallets' = (wallets \ old) \cup {r})
    <3>1. old = {} => (wallets \ old) \cup {r : w \in old} = wallets
      OBVIOUS
    <3>2. old # {} => (wallets \ old) \cup {r : w \in old} = (wallets \ old) \cup {r}
      OBVIOUS
    <3> QED  BY <1>12, <3>1, <3>2 DEF G!UpdateWalletRow
  <2>3. CASE old # {} /\ wallets' = (wallets \ old) \cup {r}
    <3>1. r.dflt => \A w \in wallets : w.user = r.user /\ w.dflt => w \in old
      BY <1>2, <1>12 DEF Ready, G!Of, G!UpdateWalletRow
    <3>2. \A w \in old : w.user = r.user /\ w.id = r.id
      BY DEF G!Of
    <3> HIDE DEF r, old
    <3>3. OneDefault'
      BY <1>2, <2>3, <3>1 DEF OneDefault
    <3>4. \A x \in wallets : \E w \in wallets' : w.id = x.id /\ w.user = x.user
      BY <2>3, <3>2
    <3>5. PaidWallets'
      BY <1>1, <1>2, <3>4 DEF PaidWallets, G!Of, G!Exists
    <3> QED  BY <1>5, <2>1, <3>3, <3>5
  <2> QED  BY <1>5, <1>6, <2>1, <2>2, <2>3
<1>13. CASE G!CountExperts(p)
  <2>1. UNCHANGED wallets
    BY <1>13 DEF G!CountExperts
  <2>2. CASE G!UsedBy(call[p].key) = {} /\ G!Goes(p, "delete")
    <3>1. To(p, Gone(call[p], "delete"))
      BY <2>2, Steps
    <3>2. call'[p].at = "delete" /\ call'[p].key = call[p].key
      <4>1. call[p] \in DeleteWallets
        BY <1>0, <1>13, Places DEF G!CountExperts, G!At
      <4>2. Gone(call[p], "delete").at = "delete" /\ Gone(call[p], "delete").key = call[p].key
        BY <4>1 DEF Gone, DeleteWallets
      <4> QED  BY <1>4, <3>1, <4>2
    <3>3. Ready(p)'
      BY <1>1, <2>2, <3>2 DEF Ready, G!At, G!UsedBy, G!Exists
    <3> QED  BY <1>3, <1>6, <2>1, <3>1, <3>3
  <2>3. CASE \E v : G!Returns(p, v)
    BY <1>5, <1>6, <2>1, <2>3
  <2> QED  BY <1>13, <2>2, <2>3 DEF G!CountExperts
<1>14. CASE G!DeleteWalletRow(p)
  <2>1. \E v : G!Returns(p, v)
    BY <1>14 DEF G!DeleteWalletRow
  <2>2. wallets' \subseteq wallets /\ \A w \in wallets : w.id # call[p].key => w \in wallets'
    BY <1>14 DEF G!DeleteWalletRow, G!Of
  <2>3. \A e \in Experts : G!Exists(e) => experts[e].wallet # call[p].key
    BY <1>2, <1>14 DEF Ready, G!UsedBy, G!DeleteWalletRow
  <2>4. OneDefault'
    BY <1>2, <2>2 DEF OneDefault
  <2>5. PaidWallets'
    BY <1>1, <1>2, <2>2, <2>3 DEF PaidWallets, G!Of, G!Exists
  <2> QED  BY <1>5, <2>1, <2>4, <2>5
<1> QED
  BY <1>8, <1>9, <1>10, <1>11, <1>12, <1>13, <1>14 DEF G!insertWallet, G!updateWallet, G!deleteWallet

\* The experts of the registry, while the server writes alone.
LEMMA ExpertsAgree ==
    ASSUME TypeInv, ~shared, OneRuns, Agree, NEW p \in Processes, Turn(p), G!ExpertStatement(p)
    PROVE  OneRuns' /\ Agree'
<1>0. /\ call[p] # G!NoCall /\ call[p] \in CommandCalls /\ p \in DOMAIN call
      /\ call[p].at \in {"check", "insertExpert", "updateExpert", "stamp", "disabled", "drop expert"}
  <2>1. /\ call[p] # G!NoCall
        /\ call[p].at \in {"check", "insertExpert", "updateExpert", "stamp", "disabled", "drop expert"}
    BY DEF G!ExpertStatement, G!CheckWallet, G!insertExpert, G!updateExpert, G!setExpertDisabled, G!deleteExpert, G!At
  <2> QED  BY <2>1, CallOf DEF TypeInv, CallsOK
<1>1. wallets' = wallets /\ Ready(p) /\ OneDefault /\ PaidWallets
  BY DEF G!ExpertStatement, G!walletVars, Agree
<1>2. OneDefault'
  BY <1>1 DEF OneDefault
<1>3. ASSUME NEW k, To(p, k), Ready(p)', PaidWallets' PROVE OneRuns' /\ Agree'
  BY <1>0, <1>2, <1>3, AgreeSteps
<1>4. ASSUME NEW k, To(p, k) PROVE call'[p] = k
  BY <1>0, <1>4 DEF To
<1>5. ASSUME NEW v, G!Returns(p, v), PaidWallets' PROVE OneRuns' /\ Agree'
  <2>1. To(p, Returned(call[p], v))
    BY <1>5, Steps
  <2>2. Waits(call'[p])
    <3>1. Waits(Returned(call[p], v))
      BY <1>0, Stays DEF Waits
    <3>2. call'[p] = Returned(call[p], v)
      BY <1>4, <2>1
    <3> QED  BY <3>1, <3>2
  <2> QED  BY <1>3, <1>5, <2>1, <2>2, WaitersAreReady
<1>6. ASSUME UNCHANGED experts PROVE PaidWallets'
  BY <1>1, <1>6 DEF PaidWallets, G!Of, G!Exists
<1>7. ASSUME NEW e \in Experts, NEW row, G!Put(e, row), \E w \in wallets : w.user = row.user /\ w.id = row.wallet
      PROVE  PaidWallets'
  <2>1. experts' = [experts EXCEPT ![e] = row] /\ DOMAIN experts = Experts
    BY <1>7 DEF G!Put, TypeInv, ExpertsOK
  <2>2. experts'[e] = row /\ \A f \in Experts \ {e} : experts'[f] = experts[f]
    BY <2>1
  <2> QED  BY <1>1, <1>7, <2>2 DEF PaidWallets, G!Of, G!Exists
<1>8. CASE G!CheckWallet(p)
  <2>1. UNCHANGED experts
    BY <1>8 DEF G!CheckWallet, G!expertVars
  <2>2. CASE /\ G!getWallet(call[p].row.wallet, call[p].row.user) # G!Null
             /\ call' = [call EXCEPT ![p].at = call[p].m, ![p].row.at = clock]
    <3> DEFINE k == [call[p] EXCEPT !.at = call[p].m, !.row.at = clock]
    <3>1. To(p, k)
      BY <2>2 DEF To
    <3>2. call[p] \in PutExperts
      BY <1>0, <1>8, Places DEF G!CheckWallet, G!At
    <3>3. /\ k.at \in {"insertExpert", "updateExpert"}
          /\ k.row.wallet = call[p].row.wallet /\ k.row.user = call[p].row.user
      BY <3>2 DEF PutExperts, ExpertRows
    <3>4. \E w \in wallets : w.user = call[p].row.user /\ w.id = call[p].row.wallet
      BY <2>2 DEF G!getWallet, G!FirstOf, G!Of
    <3> HIDE DEF k
    <3>5. call'[p] = k
      BY <1>4, <3>1
    <3>6. Ready(p)'
      BY <1>1, <3>3, <3>4, <3>5 DEF Ready, G!At, G!Of
    <3> QED  BY <1>3, <1>6, <2>1, <3>1, <3>6
  <2>3. CASE \E v : G!Returns(p, v)
    BY <1>5, <1>6, <2>1, <2>3
  <2> QED  BY <1>8, <2>2, <2>3 DEF G!CheckWallet
<1>9. CASE G!insertExpert(p) \/ G!updateExpert(p)
  <2>1. \E v : G!Returns(p, v)
    BY <1>9 DEF G!insertExpert, G!updateExpert
  <2>2. UNCHANGED experts \/ G!Put(call[p].key, call[p].row)
    BY <1>9 DEF G!insertExpert, G!updateExpert, G!expertVars
  <2>3. call[p].key \in Experts
    <3>1. call[p] \in PutExperts
      BY <1>0, <1>9, Places DEF G!insertExpert, G!updateExpert, G!At
    <3> QED  BY <3>1 DEF PutExperts
  <2>4. \E w \in wallets : w.user = call[p].row.user /\ w.id = call[p].row.wallet
    BY <1>1, <1>9 DEF Ready, G!Of, G!insertExpert, G!updateExpert
  <2> QED  BY <1>5, <1>6, <1>7, <2>1, <2>2, <2>3, <2>4
<1>10. CASE G!setExpertDisabled(p)
  <2>0. call[p] \in DisableExperts
    BY <1>0, <1>10, Places DEF G!setExpertDisabled, G!At
  <2>1. CASE /\ call' = [call EXCEPT ![p].at = "disabled", ![p].row.at = clock]
             /\ UNCHANGED G!expertVars
    <3> DEFINE k == [call[p] EXCEPT !.at = "disabled", !.row.at = clock]
    <3>1. To(p, k)
      BY <2>1 DEF To
    <3>2. k.at = "disabled"
      BY <2>0 DEF DisableExperts
    <3> HIDE DEF k
    <3>3. call'[p] = k
      BY <1>4, <3>1
    <3>4. Ready(p)'
      BY <3>2, <3>3 DEF Ready, G!At
    <3> QED  BY <1>3, <1>6, <2>1, <3>1, <3>4 DEF G!expertVars
  <2>2. CASE UNCHANGED G!expertVars /\ \E v : G!Returns(p, v)
    BY <1>5, <1>6, <2>2 DEF G!expertVars
  <2>3. CASE /\ G!getExpert(call[p].key, call[p].user) # G!Null
             /\ G!Put(call[p].key, [experts[call[p].key] EXCEPT !.disabled = call[p].row.disabled,
                                                                !.at = call[p].row.at])
             /\ G!Returns(p, G!True)
    <3> DEFINE e == call[p].key
               row == [experts[e] EXCEPT !.disabled = call[p].row.disabled, !.at = call[p].row.at]
    <3>1. e \in Experts /\ G!Exists(e)
      BY <2>0, <2>3 DEF DisableExperts, G!getExpert
    <3>2. row.user = experts[e].user /\ row.wallet = experts[e].wallet
      BY <3>1 DEF TypeInv, ExpertsOK
    <3>3. \E w \in wallets : w.user = experts[e].user /\ w.id = experts[e].wallet
      BY <1>1, <3>1 DEF PaidWallets, G!Of
    <3>4. G!Put(e, row)
      BY <2>3
    <3> HIDE DEF e, row
    <3> QED  BY <1>5, <1>7, <2>3, <3>1, <3>2, <3>3, <3>4
  <2> QED  BY <1>10, <2>1, <2>2, <2>3 DEF G!setExpertDisabled
<1>11. CASE G!deleteExpert(p)
  <2>1. \E v : G!Returns(p, v)
    BY <1>11 DEF G!deleteExpert
  <2>2. experts' = experts \/ experts' = [experts EXCEPT ![call[p].key] = G!NoExpert]
    BY <1>11 DEF G!deleteExpert
  <2>3. \A e \in Experts : experts'[e] = experts[e] \/ experts'[e].at = 0
    BY <2>2 DEF TypeInv, ExpertsOK, G!NoExpert
  <2>4. PaidWallets'
    BY <1>1, <2>3 DEF PaidWallets, G!Of, G!Exists
  <2> QED  BY <1>5, <2>1, <2>4
<1> QED  BY <1>8, <1>9, <1>10, <1>11 DEF G!ExpertStatement

\* Reads and the statements of initDatabase change neither wallets nor experts.
LEMMA OthersAgree ==
    ASSUME TypeInv, ~shared, OneRuns, Agree, NEW p \in Processes, Turn(p), G!initDatabase(p) \/ G!read(p)
    PROVE  OneRuns' /\ Agree'
<1>1. UNCHANGED <<wallets, experts>> /\ call[p] # G!NoCall
  BY DEF G!initDatabase, G!read, G!walletVars, G!expertVars, G!CreateUsers, G!TestUsers, G!UntestUsers,
     G!CreateUsersNew, G!CopyUsers, G!DropUsers, G!RenameUsersNew, G!At
<1>2. call[p] \in CommandCalls /\ p \in DOMAIN call
  BY <1>1, CallOf DEF TypeInv, CallsOK
<1>3. OneDefault' /\ PaidWallets'
  BY <1>1 DEF Agree, OneDefault, PaidWallets, G!Of, G!Exists
<1>4. CASE G!initDatabase(p)
  <2>1. PICK k \in OpenCalls : To(p, k)
    BY <1>4, DatabaseRows
  <2>2. call'[p] \in OpenCalls
    BY <1>2, <2>1 DEF To
  <2>3. Ready(p)'
    BY <2>2 DEF OpenCalls, Ready, G!At
  <2> QED  BY <1>1, <1>3, <2>1, <2>3, AgreeSteps
<1>5. CASE G!read(p)
  <2>1. To(p, Returned(call[p], G!Answer(call[p])))
    BY <1>5, Steps DEF G!read
  <2>2. Waits(call'[p])
    BY <1>2, <2>1, Stays DEF Waits, To
  <2> QED  BY <1>1, <1>3, <2>1, <2>2, AgreeSteps, WaitersAreReady
<1> QED  BY <1>4, <1>5

\* The users who were answered, through the statements of initDatabase.
LEMMA MigrationKeeps ==
    ASSUME TypeInv, ~shared, Begins, Kept, NEW p \in Processes, G!initDatabase(p), UNCHANGED joined
    PROVE  Kept'
<1>1. call[p] # G!NoCall /\ call[p].m = "initDatabase" /\ p \in DOMAIN call
  <2>1. PICK k \in OpenCalls : k.m = call[p].m /\ Moves(p, k)
    BY DatabaseRows
  <2> QED  BY <2>1 DEF OpenCalls, Moves, TypeInv, CallsOK
<1>2. p = Server
  BY <1>1, AllFar DEF Processes
<1>3. \A c \in Commands : call'[c] = call[c]
  <2>1. PICK k \in OpenCalls : To(p, k)
    BY DatabaseRows
  <2> QED  BY <1>1, <1>2, <2>1, ServerIsNoCommand DEF To, TypeInv, CallsOK
<1>4. Sure' = Sure
  BY <1>3 DEF Sure, SignedUp, G!NoCall, G!Id
<1>5. Sure \subseteq Users
  BY DEF Sure, TypeInv, MonitorOK
<1>6. ASSUME NEW at, G!Goes(Server, at) PROVE \A x : G!At(Server, x)' <=> x = at
  <2>1. To(Server, Gone(call[Server], at)) /\ call[Server] \in CommandCalls
    BY <1>1, <1>2, <1>6, Steps, CallOf DEF TypeInv
  <2>2. call'[Server] = Gone(call[Server], at)
    BY <1>1, <1>2, <2>1 DEF To
  <2>3. call'[Server].at = at /\ call'[Server].m = "initDatabase"
    BY <1>1, <1>2, <2>1, <2>2, Stays
  <2> QED  BY <2>3 DEF G!At, G!NoCall
<1>7. ASSUME NEW v, G!Returns(Server, v) PROVE \A x : G!At(Server, x)' <=> x = "done"
  <2>1. To(Server, Returned(call[Server], v)) /\ call[Server] \in CommandCalls
    BY <1>1, <1>2, <1>7, Steps, CallOf DEF TypeInv
  <2>2. call'[Server] = Returned(call[Server], v)
    BY <1>1, <1>2, <2>1 DEF To
  <2>3. call'[Server].at = "done" /\ call'[Server].m = "initDatabase"
    BY <1>1, <1>2, <2>1, <2>2, Stays
  <2> QED  BY <2>3 DEF G!At, G!NoCall
<1>8. \A x, y : G!At(Server, x) /\ G!At(Server, y) => x = y
  BY DEF G!At
<1> USE <1>2
<1>9. CASE G!CreateUsers(p)
  <2>1. G!At(Server, "open") /\ G!Goes(Server, "test") /\ "users" \in tables
    BY <1>8, <1>9 DEF G!CreateUsers, Kept
  <2>2. tables' = tables /\ users' = users /\ usersNew' = usersNew
    BY <1>9, <2>1 DEF G!CreateUsers, G!Has
  <2> QED  BY <1>4, <1>6, <1>8, <2>1, <2>2 DEF Kept, Rows
<1>10. CASE G!TestUsers(p)
  <2>1. G!At(Server, "test") /\ "users" \in tables /\ Sure \subseteq Rows(users)
    BY <1>8, <1>10 DEF G!TestUsers, Kept
  <2>2. tables' = tables /\ users \subseteq users' /\ usersNew' = usersNew
    BY <1>10 DEF G!TestUsers
  <2>3. \A x : G!At(Server, x)' => x \in {"untest", "create"}
    BY <1>6, <1>10 DEF G!TestUsers
  <2> QED  BY <1>4, <2>1, <2>2, <2>3 DEF Kept, Rows
<1>11. CASE G!UntestUsers(p)
  <2>1. G!At(Server, "untest") /\ "users" \in tables /\ Sure \subseteq Rows(users)
    BY <1>8, <1>11 DEF G!UntestUsers, Kept
  <2>2. tables' = tables /\ users' = users \ {G!TestRow} /\ usersNew' = usersNew
    BY <1>11 DEF G!UntestUsers
  <2>3. \A x : G!At(Server, x)' => x \in {"done", "create"}
    BY <1>6, <1>7, <1>11 DEF G!UntestUsers
  <2>4. G!TestRow.pubkey \notin Users
    BY TestIsNoUser DEF G!TestRow
  <2>5. Sure' \subseteq Rows(users')
    BY <1>4, <1>5, <2>1, <2>2, <2>4 DEF Rows
  <2> QED  BY <2>1, <2>2, <2>3, <2>5 DEF Kept, Rows
<1>12. CASE G!CreateUsersNew(p)
  <2>1. G!At(Server, "create") /\ "users" \in tables /\ Sure \subseteq Rows(users)
    BY <1>8, <1>12 DEF G!CreateUsersNew, Kept
  <2>2. \/ tables' = tables /\ users' = users /\ G!Returns(Server, G!Throws)
        \/ tables' = tables \cup {"users_new"} /\ users' = users /\ G!Goes(Server, "copy")
    BY <1>12 DEF G!CreateUsersNew, G!usersVars
  <2>3. \A x : G!At(Server, x)' => x \in {"done", "copy"}
    BY <1>6, <1>7, <2>2
  <2>4. G!At(Server, "copy")' => "users_new" \in tables'
    BY <1>7, <2>2
  <2> QED  BY <1>4, <2>1, <2>2, <2>3, <2>4 DEF Kept, Rows
<1>13. CASE G!CopyUsers(p)
  <2>1. G!At(Server, "copy") /\ "users" \in tables /\ "users_new" \in tables /\ Sure \subseteq Rows(users)
    BY <1>8, <1>13 DEF G!CopyUsers, Kept
  <2>2. tables' = tables /\ users' = users /\ usersNew' = users /\ G!Goes(Server, "drop")
    BY <1>13, <2>1 DEF G!CopyUsers, G!Has, G!Copied
  <2> QED  BY <1>4, <1>6, <2>1, <2>2 DEF Kept, Rows
<1>14. CASE G!DropUsers(p)
  <2>1. /\ G!At(Server, "drop") /\ "users" \in tables /\ "users_new" \in tables
        /\ Sure \subseteq Rows(users) /\ usersNew = users
    BY <1>8, <1>14 DEF G!DropUsers, Kept
  <2>2. tables' = tables \ {"users"} /\ usersNew' = usersNew /\ G!Goes(Server, "rename")
    BY <1>14, <2>1 DEF G!DropUsers, G!Has
  <2>3. tables' = {"users_new"}
    BY <2>1, <2>2 DEF TypeInv, UsersOK
  <2> QED  BY <1>4, <1>6, <2>1, <2>2, <2>3 DEF Kept, Rows
<1>15. CASE G!RenameUsersNew(p)
  <2>1. G!At(Server, "rename") /\ tables = {"users_new"} /\ Sure \subseteq Rows(usersNew)
    BY <1>15 DEF G!RenameUsersNew, Kept
  <2>2. tables' = {"users"} /\ users' = usersNew /\ G!Returns(Server, G!True)
    BY <1>15, <2>1 DEF G!RenameUsersNew, G!Has
  <2> QED  BY <1>4, <1>7, <2>1, <2>2 DEF Kept, Rows
<1> QED  BY <1>9, <1>10, <1>11, <1>12, <1>13, <1>14, <1>15 DEF G!initDatabase

\* The statements of requests.
LEMMA RequestsKeep ==
    ASSUME TypeInv, Kept, NEW p \in Processes, UNCHANGED joined,
           \/ G!insertWallet(p) \/ G!updateWallet(p) \/ G!deleteWallet(p)
           \/ (G!ExpertStatement(p) /\ UNCHANGED clock) \/ G!read(p)
    PROVE  Kept'
<1>1. UNCHANGED <<tables, users, usersNew>>
  BY DEF G!insertWallet, G!updateWallet, G!deleteWallet, G!ExpertStatement, G!read, G!usersVars
<1>2. PICK k : Moves(p, k)
  BY InsertWalletCalls, UpdateWalletRows, DeleteWalletRows, ExpertStatementRows, ReadCalls
<1>3. /\ call[p] # G!NoCall /\ call[p] \in CommandCalls /\ p \in DOMAIN call
      /\ call'[p] = k /\ \A q \in Processes \ {p} : call'[q] = call[q]
      /\ k.m = call[p].m
  BY <1>2, CallOf DEF Moves, TypeInv, CallsOK
<1>4. call[p] \notin OpenCalls
  <2>1. call[p].at \notin {"open", "test", "untest", "create", "copy", "drop", "rename", "done"}
    BY DEF G!insertWallet, G!updateWallet, G!deleteWallet, G!ExpertStatement, G!read, G!CountWallets, G!ClearDefault,
       G!InsertWalletRow, G!UnsetDefault, G!UpdateWalletRow, G!CountExperts, G!DeleteWalletRow, G!CheckWallet,
       G!insertExpert, G!updateExpert, G!setExpertDisabled, G!deleteExpert, G!At
  <2> QED  BY <2>1 DEF OpenCalls
<1>5. p \in Commands /\ p # Server
  BY <1>3, <1>4, CallOf, ServerIsNoCommand DEF TypeInv
<1>6. ASSUME NEW u \in Users, SignedUp(p, u)' PROVE SignedUp(p, u)
  <2>1. call[p].m = "signup"
    BY <1>3, <1>6 DEF SignedUp
  <2>2. call[p] \in Signups
    BY <1>3, <2>1, Methods
  <2>3. G!insertWallet(p)
    <3>1. call[p].at \notin {"read", "unset", "update", "used", "delete", "check", "insertExpert", "updateExpert",
                             "stamp", "disabled", "drop expert"}
      BY <2>2 DEF Signups
    <3> QED
      BY <3>1 DEF G!updateWallet, G!deleteWallet, G!ExpertStatement, G!read, G!UnsetDefault, G!UpdateWalletRow,
         G!CountExperts, G!DeleteWalletRow, G!CheckWallet, G!insertExpert, G!updateExpert, G!setExpertDisabled,
         G!deleteExpert, G!At
  <2>4. call[p].at \in {"count", "clear", "wallet"}
    BY <2>3 DEF G!insertWallet, G!CountWallets, G!ClearDefault, G!InsertWalletRow, G!At
  <2>5. \/ call'[p].user = call[p].user /\ call'[p].at \in {"clear", "wallet"}
        \/ call'[p].at = "done" /\ call'[p].val \in {G!Throws, G!Id(call[p].user)}
    <3>1. CASE G!CountWallets(p)
      <4>1. \/ call' = [call EXCEPT ![p].at = "clear", ![p].row.dflt = TRUE]
            \/ call' = [call EXCEPT ![p].at = "wallet"]
        BY <3>1 DEF G!CountWallets, G!Goes
      <4> QED  BY <1>3, <2>2, <4>1 DEF Signups
    <3>2. CASE G!ClearDefault(p)
      BY <1>3, <2>2, <3>2 DEF G!ClearDefault, G!Goes, Signups
    <3>3. CASE G!InsertWalletRow(p)
      <4>1. G!Returns(p, G!Throws) \/ G!Returns(p, G!Id(call[p].user))
        BY <2>1, <3>3 DEF G!InsertWalletRow, G!Inserted
      <4> QED  BY ZenonT(60), <1>3, <2>2, <4>1 DEF G!Returns, Signups
    <3> QED  BY <2>3, <3>1, <3>2, <3>3 DEF G!insertWallet
  <2>6. call[p].user = u
    BY <1>6, <2>5 DEF SignedUp, G!Throws, G!Id
  <2> QED  BY <1>3, <2>1, <2>4, <2>6 DEF SignedUp
<1>7. \A d \in Commands \ {p} : call'[d] = call[d]
  BY <1>3, ServerIsNoCommand
<1>8. Sure' \subseteq Sure
  BY <1>6, <1>7, SureStays
<1> QED  BY <1>1, <1>3, <1>5, <1>8, KeptStays, ServerIsNoCommand
LEMMA SameMethod ==
    ASSUME NEW M, NEW A, NEW U, NEW K, NEW R, NEW V,
           NEW k \in [m : M, at : A, user : U, key : K, row : R, val : V], NEW a, NEW u
    PROVE  LET n == [k EXCEPT !.at = a, !.user = u]
           IN  n.at = a /\ n.user = u /\ n.m = k.m
  OBVIOUS


\* Where a handler goes on while its request is served, nothing is owed to it, and a user
\* who is answered is in the table.
LEMMA ServeSteps ==
    ASSUME TypeInv, NEW c \in Commands, Serve(c)
    PROVE  \E k : /\ To(c, k) /\ k # G!NoCall
                  /\ \/ k.at \in {"sent", "make", "bonus", "done", "read", "count", "unset", "used",
                                  "check", "stamp", "drop expert", "find", "user"}
                     \/ k.at = "update" /\ ~k.row.dflt
                  /\ \A u \in Users : k.m = "signup" =>
                        /\ k.at = "count" /\ k.user = u => u \in Rows(users')
                        /\ k.at = "done" /\ k.val = G!Id(u) => u \in Rows(users')
                        /\ k.at \notin {"clear", "wallet"}
<1> DEFINE Good(k) ==
      /\ To(c, k) /\ k # G!NoCall
      /\ \/ k.at \in {"sent", "make", "bonus", "done", "read", "count", "unset", "used",
                      "check", "stamp", "drop expert", "find", "user"}
         \/ k.at = "update" /\ ~k.row.dflt
      /\ \A u \in Users : k.m = "signup" =>
            /\ k.at = "count" /\ k.user = u => u \in Rows(users')
            /\ k.at = "done" /\ k.val = G!Id(u) => u \in Rows(users')
            /\ k.at \notin {"clear", "wallet"}
<1>1. /\ call[c] # G!NoCall /\ call[c] \in CommandCalls
      /\ call[c].at \in {"sent", "find", "user", "make", "bonus"}
  <2>1. call[c] # G!NoCall /\ call[c].at \in {"sent", "find", "user", "make", "bonus"}
    BY DEF Serve, S!Handle, S!Receive, S!FindUser, S!addUser, S!WalletMade, S!Bonus, S!G!At, S!G!NoCall, G!NoCall
  <2> QED  BY <2>1, CallOf, ServerIsNoCommand DEF TypeInv
<1>2. call[c].at \in {"find", "user", "make"} => call[c] \in InsertWallets \cup Signups \cup Externals
  BY <1>1, Places
<1>3. ASSUME NEW v \in Plain, To(c, Returned(call[c], v)) PROVE \E k : Good(k)
  <2>1. /\ Returned(call[c], v).at = "done" /\ Returned(call[c], v) \in CommandCalls
        /\ Returned(call[c], v).val = v
    BY ZenonT(60), <1>1, <1>3, Stays DEF Returned, CommandCalls, OpenCalls, UserAddCalls, WalletReads, ExpertReads, ExpertLists,
       InsertWallets, Signups, Externals, UpdateWallets, DeleteWallets, PutExperts, DisableExperts, DeleteExperts
  <2>2. \A u : v # G!Id(u)
    BY DEF Plain, G!Id
  <2> QED  BY <1>3, <2>1, <2>2, Methods
<1>4. CASE S!Receive(c)
  <2>1. call[c].at = "sent"
    BY <1>4 DEF S!Receive, S!G!At
  <2>2. CASE S!G!Goes(c, S!Route(call[c]))
    <3> DEFINE k == Gone(call[c], S!Route(call[c]))
    <3>1. To(c, k)
      BY <2>2, Steps
    <3>2. /\ k \in CommandCalls /\ k.m = call[c].m /\ k.row = call[c].row
          /\ \/ k.at \notin {"sent", "wallet", "update", "insertExpert", "updateExpert", "disabled", "delete", "done"}
             \/ k.at = "update" /\ ~k.row.dflt
      BY <1>1, <2>1, Routes, Stays DEF CommandCalls
    <3>3. k.m = "signup" => k.at = "find"
      <4>1. ASSUME call[c].m = "signup" PROVE S!Route(call[c]) = "find"
        BY <4>1 DEF S!Route, S!walletReads, S!expertReads, S!expertWrites, S!UserMethods
      <4> QED  BY <1>1, <3>2, <4>1, Stays
    <3>4. k.at # "update" =>
             k.at \in {"read", "make", "count", "find", "unset", "used", "check", "stamp", "drop expert"}
      <4>1. S!Route(call[c]) \in {"read", "make", "count", "find", "unset", "update", "used", "check", "stamp", "drop expert"}
        <5>1. call[c] \in CommandCalls \ (OpenCalls \cup UserAddCalls)
          BY <1>1, <2>1 DEF OpenCalls, UserAddCalls
        <5>2. call[c].m \in {"getWalletByName", "getDefaultWallet", "getExpert", "listExperts", "insertWallet", "signup",
                             "ensureExternalUser", "updateWallet", "deleteWallet", "insertExpert", "updateExpert",
                             "setExpertDisabled", "deleteExpert"}
          BY <5>1 DEF CommandCalls, WalletReads, ExpertReads, ExpertLists, InsertWallets, Signups, Externals,
             UpdateWallets, DeleteWallets, PutExperts, DisableExperts, DeleteExperts
        <5> QED  BY <5>2 DEF S!Route, S!walletReads, S!walletEdits, S!expertReads, S!expertWrites, S!expertEdits, S!UserMethods
      <4>2. k.at = S!Route(call[c])
        BY <1>1, Stays
      <4> QED  BY <4>1, <4>2
    <3>5. k.at = "update" => ~k.row.dflt
      BY <3>2
    <3> HIDE DEF k
    <3>6. k # G!NoCall /\ (k.m = "signup" => k.at \notin {"count", "done", "clear", "wallet"})
      BY <3>2, <3>3, Methods
    <3>7. \A u \in Users : k.m = "signup" =>
            /\ k.at = "count" /\ k.user = u => u \in Rows(users')
            /\ k.at = "done" /\ k.val = G!Id(u) => u \in Rows(users')
            /\ k.at \notin {"clear", "wallet"}
      BY <3>6
    <3>8. CASE k.at = "update"
      BY <3>1, <3>5, <3>6, <3>7, <3>8
    <3>9. CASE k.at # "update"
      BY <3>1, <3>4, <3>6, <3>7, <3>9
    <3> QED  BY <3>8, <3>9
  <2>3. CASE \E s \in {"403", "503"} : S!Refuses(c, s)
    BY <1>3, <2>3, Steps, Values
  <2> QED  BY <1>4, <2>2, <2>3 DEF S!Receive
<1>5. CASE S!FindUser(c)
  <2>1. call[c].at = "find" /\ call[c] \in Signups \cup Externals /\ UNCHANGED users
    BY <1>1, <1>5, Places DEF S!FindUser, S!G!At, S!registryVars
  <2>2. CASE S!G!Returns(c, S!G!Throws)
    BY <1>3, <2>2, Steps, Values
  <2>3. CASE S!G!Goes(c, "make")
    <3> DEFINE k == Gone(call[c], "make")
    <3>1. To(c, k) /\ k.at = "make"
      BY <1>1, <2>3, Steps, Stays
    <3>2. k \in CommandCalls
      BY <2>1, GoesOn DEF CommandCalls
    <3> HIDE DEF k
    <3> QED  BY <3>1, <3>2, Methods
  <2>4. CASE /\ S!Known(call[c]) # {}
             /\ S!G!Returns(c, S!G!Id((CHOOSE u \in S!Known(call[c]) : TRUE).pubkey))
    <3> DEFINE r == CHOOSE u \in S!Known(call[c]) : TRUE
               k == Returned(call[c], S!G!Id(r.pubkey))
    <3>1. r \in users /\ r.pubkey \in Users
      BY <2>1, <2>4, KnownUsers DEF TypeInv
    <3>2. To(c, k)
      BY <2>4, Steps
    <3> HIDE DEF r
    <3>3. k.at = "done" /\ k.val = G!Id(r.pubkey) /\ k \in Signups \cup Externals
      <4>1. S!G!Id(r.pubkey) \in UserAnswers /\ S!G!Id(r.pubkey) = G!Id(r.pubkey)
        BY <3>1, Values DEF S!G!Id, G!Id
      <4> QED  BY <2>1, <4>1 DEF Returned, Signups, Externals
    <3>4. \A u \in Users : k.val = G!Id(u) => u \in Rows(users')
      BY <2>1, <3>1, <3>3 DEF G!Id, Rows
    <3> HIDE DEF k
    <3>5. k # G!NoCall
      BY <3>3, Methods DEF CommandCalls
    <3> QED  BY <3>2, <3>3, <3>4, <3>5
  <2> QED  BY <1>5, <2>2, <2>3, <2>4 DEF S!FindUser
<1>6. CASE S!addUser(c)
  <2>1. call[c] \in Signups \cup Externals
    BY <1>1, <1>6, Places DEF S!addUser, S!G!At
  <2>2. \E u \in Users : \E x \in {"", "ext"} : G!insertUser(c, "count", u, x)
    <3>1. CASE call[c].m = "signup"
      <4>1. call[c].key \in Users
        BY <1>1, <3>1, Methods DEF Signups
      <4> QED  BY <1>6, <3>1, <4>1, SameInsertUser DEF S!addUser
    <3>2. CASE call[c].m # "signup"
      BY <1>6, <3>2, SameInsertUser DEF S!addUser
    <3> QED  BY <3>1, <3>2
  <2>3. CASE G!Returns(c, G!Throws)
    BY <1>3, <2>3, Steps, Values
  <2>4. ASSUME NEW u \in Users, NEW x,
               users' = users \cup {[pubkey |-> u, ext |-> x]},
               call' = [call EXCEPT ![c].at = "count", ![c].user = u]
        PROVE  \E k : Good(k)
    <3> DEFINE k == [call[c] EXCEPT !.at = "count", !.user = u]
    <3>1. To(c, k)
      BY <2>4 DEF To
    <3>2. k.at = "count" /\ k.user = u /\ k.m = call[c].m
      <4>1. CASE call[c] \in Signups
        BY <4>1, SameMethod DEF Signups
      <4>2. CASE call[c] \in Externals
        BY <4>2, SameMethod DEF Externals
      <4> QED  BY <2>1, <4>1, <4>2
    <3>3. u \in Rows(users')
      <4>1. [pubkey |-> u, ext |-> x] \in users' /\ [pubkey |-> u, ext |-> x].pubkey = u
        BY <2>4
      <4> QED  BY <4>1 DEF Rows
    <3> HIDE DEF k
    <3>4. k # G!NoCall
      <4>1. call[c].m # "none"
        BY <2>1 DEF Signups, Externals
      <4> QED  BY <3>2, <4>1 DEF G!NoCall
    <3> QED  BY <3>1, <3>2, <3>3, <3>4
  <2> QED  BY <2>2, <2>3, <2>4 DEF G!insertUser
<1>7. CASE S!WalletMade(c)
  <2>1. call[c] \in InsertWallets \cup Signups \cup Externals
    BY <1>1, <1>7, Places DEF S!WalletMade, S!G!At
  <2> DEFINE at == IF call[c].m = "insertWallet" THEN "count" ELSE "user"
             k == Gone(call[c], at)
  <2>2. To(c, k)
    BY <1>7, Steps DEF S!WalletMade
  <2>3. k.m = call[c].m /\ k.at = at
    BY <1>1, Stays
  <2>4. k.m # "none"
    BY <2>1, <2>3 DEF InsertWallets, Signups, Externals
  <2> HIDE DEF k
  <2>5. k # G!NoCall
    BY <2>4 DEF G!NoCall
  <2> QED  BY <2>2, <2>3, <2>5
<1>8. CASE S!Bonus(c)
  <2>1. call[c] \in Externals
    BY <1>1, <1>8, Places DEF S!Bonus, S!G!At
  <2> DEFINE k == Returned(call[c], S!G!Id(call[c].user))
  <2>2. To(c, k)
    BY <1>8, Steps DEF S!Bonus
  <2>3. k.m = "ensureExternalUser" /\ k.at = "done"
    BY <2>1 DEF Externals, Returned
  <2> HIDE DEF k
  <2>4. k # G!NoCall
    BY <2>3 DEF G!NoCall
  <2> QED  BY <2>2, <2>3, <2>4
<1> QED  BY <1>4, <1>5, <1>6, <1>7, <1>8 DEF Serve, S!Handle

\* A statement of a request, or of initDatabase.
LEMMA RunAlone ==
    ASSUME TypeInv, ~shared, Alone, NEW p \in Processes, Run(p)
    PROVE  Alone'
<1>1. Turn(p) /\ G!Statement(p) /\ UNCHANGED <<srv, joined, cut, clock>>
  BY DEF Run, Elsewhere, historyVars
<1>2. OneRuns /\ Begins /\ Agree /\ (~cut => Kept)
  BY DEF Alone
<1>3. call[p] # G!NoCall /\ call[p].at \notin {"sent", "done"}
  BY <1>1 DEF G!Statement, G!initDatabase, G!insertWallet, G!updateWallet, G!deleteWallet, G!ExpertStatement, G!read,
     G!CreateUsers, G!TestUsers, G!UntestUsers, G!CreateUsersNew, G!CopyUsers, G!DropUsers, G!RenameUsersNew,
     G!CountWallets, G!ClearDefault, G!InsertWalletRow, G!UnsetDefault, G!UpdateWalletRow, G!CountExperts,
     G!DeleteWalletRow, G!CheckWallet, G!insertExpert, G!updateExpert, G!setExpertDisabled, G!deleteExpert, G!At
<1>4. PICK k : To(p, k)
  <2>1. CASE G!initDatabase(p)
    BY <2>1, DatabaseRows
  <2>2. CASE ~G!initDatabase(p)
    <3>1. PICK k : Moves(p, k)
      BY <1>1, <2>2, InsertWalletCalls, UpdateWalletRows, DeleteWalletRows, ExpertStatementRows, ReadCalls DEF G!Statement
    <3> QED  BY <3>1 DEF Moves, To
  <2> QED  BY <2>1, <2>2
<1>5. Begins'
  <2>1. p = Server => srv = "starting"
    BY <1>2, <1>3 DEF Begins
  <2> QED  BY <1>1, <1>2, <1>3, <1>4, <2>1, BeginsStays
<1>6. OneRuns' /\ Agree'
  <2>1. CASE G!insertWallet(p) \/ G!updateWallet(p) \/ G!deleteWallet(p)
    <3>1. UNCHANGED G!expertVars
      BY <2>1 DEF G!insertWallet, G!updateWallet, G!deleteWallet
    <3> QED  BY <1>1, <1>2, <2>1, <3>1, WalletsAgree
  <2>2. CASE G!ExpertStatement(p)
    BY <1>1, <1>2, <2>2, ExpertsAgree
  <2>3. CASE G!initDatabase(p) \/ G!read(p)
    BY <1>1, <1>2, <2>3, OthersAgree
  <2> QED  BY <1>1, <2>1, <2>2, <2>3 DEF G!Statement
<1>7. ~cut => Kept'
  <2> SUFFICES ASSUME Kept PROVE Kept'
    BY <1>2
  <2>1. CASE G!initDatabase(p)
    BY <1>1, <1>2, <2>1, MigrationKeeps
  <2>2. CASE ~G!initDatabase(p)
    BY <1>1, <2>2, RequestsKeep DEF G!Statement
  <2> QED  BY <2>1, <2>2
<1> QED  BY <1>1, <1>5, <1>6, <1>7 DEF Alone

\* A handler between two statements.
LEMMA ServeAlone ==
    ASSUME TypeInv, ~shared, Alone, NEW c \in Commands, Serve(c)
    PROVE  Alone'
<1>1. /\ Turn(c) /\ c \in Processes /\ c # Server
      /\ UNCHANGED <<joined, cut, srv, tables, usersNew, wallets, experts>> /\ users \subseteq users'
  BY ServerIsNoCommand DEF Serve, Elsewhere, historyVars, S!Handle, S!Receive, S!FindUser, S!addUser, S!WalletMade,
     S!Bonus, S!registryVars, S!G!insertUser, S!G!walletVars, S!G!expertVars
<1>2. OneRuns /\ Begins /\ Agree /\ (~cut => Kept)
  BY DEF Alone
<1>3. /\ call[c] # G!NoCall
      /\ call[c].at = "sent" => srv \in {"up", "stopped"}
      /\ call[c].at # "done"
  BY DEF Serve, S!Handle, S!Receive, S!FindUser, S!addUser, S!WalletMade, S!Bonus, S!G!At, S!G!NoCall, G!NoCall
<1>4. srv \in {"up", "stopped"} /\ call[Server] = G!NoCall
  <2>1. srv \notin {"down", "starting"}
    BY <1>2, <1>3, ServerIsNoCommand DEF Begins
  <2> QED  BY <1>2, <2>1 DEF Begins, TypeInv, JobsOK
<1>5. PICK k : /\ To(c, k) /\ k # G!NoCall
               /\ \/ k.at \in {"sent", "make", "bonus", "done", "read", "count", "unset", "used",
                               "check", "stamp", "drop expert", "find", "user"}
                  \/ k.at = "update" /\ ~k.row.dflt
               /\ \A u \in Users : k.m = "signup" =>
                     /\ k.at = "count" /\ k.user = u => u \in Rows(users')
                     /\ k.at = "done" /\ k.val = G!Id(u) => u \in Rows(users')
                     /\ k.at \notin {"clear", "wallet"}
  BY ServeSteps
<1>6. call'[c] = k /\ \A q \in Processes \ {c} : call'[q] = call[q]
  BY <1>1, <1>5 DEF To, TypeInv, CallsOK
<1>7. Begins'
  <2>1. call'[Server] = G!NoCall /\ srv' \notin {"down", "starting"}
    BY <1>1, <1>4, <1>6, ServerIsNoCommand
  <2> QED  BY <2>1 DEF Begins, G!NoCall
<1>8. OneRuns' /\ Agree'
  <2>1. OneDefault' /\ PaidWallets'
    BY <1>1, <1>2 DEF Agree, OneDefault, PaidWallets, G!Of, G!Exists
  <2>2. /\ call'[c].at \notin {"wallet", "insertExpert", "updateExpert", "delete"}
        /\ call'[c].at = "update" => ~call'[c].row.dflt
    BY <1>5, <1>6
  <2>3. Ready(c)'
    BY <2>2 DEF Ready, G!At
  <2> QED  BY <1>1, <1>3, <1>5, <2>1, <2>3, AgreeSteps
<1>9. ~cut => Kept'
  <2> SUFFICES ASSUME Kept PROVE Kept'
    BY <1>2
  <2>1. call'[Server] = G!NoCall
    BY <1>1, <1>4, <1>6, ServerIsNoCommand
  <2>2. \A at : ~G!At(Server, at) /\ ~G!At(Server, at)'
    BY <1>4, <2>1 DEF G!At, G!NoCall
  <2>3. Rows(users) \subseteq Rows(users')
    BY <1>1 DEF Rows
  <2>4. Sure \subseteq Rows(users) /\ "users" \in tables
    BY <2>2 DEF Kept
  <2>5. ASSUME NEW u \in Users, SignedUp(c, u)' PROVE u \in Rows(users')
    BY <1>5, <1>6, <2>5 DEF SignedUp, G!Id
  <2>6. \A d \in Commands \ {c} : \A u \in Users : SignedUp(d, u)' => SignedUp(d, u)
    BY <1>6, ServerIsNoCommand DEF SignedUp, G!NoCall, G!Id
  <2>7. Sure' \subseteq Rows(users')
    BY <1>1, <2>3, <2>4, <2>5, <2>6 DEF Sure
  <2> QED  BY <1>1, <2>2, <2>4, <2>7 DEF Kept, Rows
<1> QED  BY <1>1, <1>7, <1>8, <1>9 DEF Alone

\* The server starts: no request is under way in it.
LEMMA ProcessAlone ==
    ASSUME TypeInv, ~shared, Alone, Process
    PROVE  Alone'
<1>1. /\ UNCHANGED <<joined, cut, tables, users, usersNew, wallets, experts>>
      /\ \/ srv = "down" /\ srv' = "starting"
         \/ srv = "starting" /\ G!At(Server, "done") /\ srv' \in {"up", "down"}
  BY DEF Process, Elsewhere, historyVars, S!constructor, S!start, S!registryVars, S!G!At, S!G!NoCall, G!At, G!NoCall,
     S!Server, Server
<1>2. OneRuns /\ Begins /\ Agree /\ (~cut => Kept)
  BY DEF Alone
<1>3. /\ \A c \in Commands : call'[c] = call[c]
      /\ call'[Server] = (IF srv = "down" THEN S!G!Call("initDatabase", "open", Test, Test, S!G!NoWallet) ELSE G!NoCall)
  BY ProcessTypes
<1>4. \A c \in Commands : Waits(call[c])
  BY <1>1, <1>2 DEF Begins, Waits
<1>5. call'[Server] = G!NoCall \/ call'[Server].at = "open"
  BY <1>3 DEF S!G!Call
<1>6. Begins'
  BY <1>1, <1>2, <1>3, <1>5 DEF Begins, G!NoCall
<1>7. OneRuns' /\ Agree'
  <2>1. OneDefault' /\ PaidWallets'
    BY <1>1, <1>2 DEF Agree, OneDefault, PaidWallets, G!Of, G!Exists
  <2>2. \A q \in Processes \ {Server} : q \in Commands
    BY DEF Processes
  <2>3. \A q \in Processes \ {Server} : Waits(call'[q])
    BY <1>3, <1>4, <2>2
  <2>4. OneRuns'
    BY <2>3, RunsOrWaits DEF OneRuns
  <2>5. Ready(Server)'
    BY <1>5 DEF Ready, G!At, G!NoCall
  <2> QED  BY <2>1, <2>3, <2>4, <2>5, WaitersAreReady DEF Agree
<1>8. ~cut => Kept'
  <2> SUFFICES ASSUME Kept PROVE Kept'
    BY <1>2
  <2>1. \A at \in {"copy", "drop", "rename"} : ~G!At(Server, at) /\ ~G!At(Server, at)'
    BY <1>1, <1>2, <1>5 DEF G!At, Begins, G!NoCall
  <2>2. Sure' = Sure
    BY <1>1, <1>3 DEF Sure, SignedUp, G!NoCall, G!Id
  <2>3. Rows(users)' = Rows(users)
    BY <1>1 DEF Rows
  <2> QED  BY <1>1, <2>1, <2>2, <2>3 DEF Kept
<1> QED  BY <1>1, <1>6, <1>7, <1>8 DEF Alone

\* The server dies: nothing is left under way.
LEMMA CrashAlone ==
    ASSUME TypeInv, ~shared, Alone, CrashServer
    PROVE  Alone'
<1>1. /\ UNCHANGED <<joined, tables, users, usersNew, wallets, experts>> /\ srv' = "down"
      /\ cut' = (cut \/ G!At(Server, "rename"))
  BY DEF CrashServer, ServerFault, Fault, S!Crash, S!registryVars, Cutting
<1>2. OneRuns /\ Begins /\ Agree /\ (~cut => Kept)
  BY DEF Alone
<1>3. ASSUME NEW c \in Commands
      PROVE  \/ call[c] = G!NoCall /\ call'[c] = G!NoCall
             \/ call[c] # G!NoCall /\ call'[c] = Returned(call[c], [is |-> "broken"])
  BY AllFar, CrashTypes
<1>4. call'[Server] = G!NoCall
  BY CrashTypes
<1>5. ASSUME NEW c \in Commands, call[c] # G!NoCall
      PROVE  call'[c].at = "done" /\ call'[c].val = [is |-> "broken"]
  <2>1. call[c] \in CommandCalls
    BY <1>5, CallOf, ServerIsNoCommand DEF TypeInv
  <2>2. call'[c] = Returned(call[c], [is |-> "broken"])
    BY <1>3, <1>5
  <2> QED
    BY <2>1, <2>2 DEF Returned, CommandCalls, OpenCalls, UserAddCalls, WalletReads, ExpertReads, ExpertLists,
       InsertWallets, Signups, Externals, UpdateWallets, DeleteWallets, PutExperts, DisableExperts, DeleteExperts
<1>6. \A p \in Processes : Waits(call'[p])
  <2>1. ASSUME NEW c \in Commands PROVE Waits(call'[c])
    BY <1>3, <1>5 DEF Waits
  <2> QED  BY <1>4, <2>1 DEF Waits, Processes
<1>7. Begins'
  BY <1>3, <1>4, <1>5 DEF Begins, G!NoCall
<1>8. OneRuns' /\ Agree'
  BY <1>1, <1>2, <1>6, QuietSteps
<1>9. ~cut' => Kept'
  <2> SUFFICES ASSUME Kept, ~G!At(Server, "rename") PROVE Kept'
    BY <1>1, <1>2
  <2>1. "users" \in tables /\ Sure \subseteq Rows(users)
    BY DEF Kept
  <2>2. ASSUME NEW c \in Commands, NEW u \in Users, SignedUp(c, u)' PROVE FALSE
    BY <1>3, <1>5, <2>2 DEF SignedUp, G!Id, G!NoCall
  <2>3. Sure' \subseteq Rows(users)
    BY <1>1, <2>1, <2>2 DEF Sure
  <2>4. \A at : ~G!At(Server, at)'
    BY <1>4 DEF G!At, G!NoCall
  <2> QED  BY <1>1, <2>1, <2>3, <2>4 DEF Kept, Rows
<1> QED  BY <1>7, <1>8, <1>9 DEF Alone

LEMMA StopAlone ==
    ASSUME TypeInv, Alone, StopServer
    PROVE  Alone'
<1>1. /\ UNCHANGED <<joined, cut, tables, users, usersNew, wallets, experts, call>>
      /\ srv = "up" /\ srv' = "stopped"
  BY DEF StopServer, ServerFault, Fault, S!stop, S!registryVars
<1>2. OneRuns /\ Begins /\ Agree /\ (~cut => Kept)
  BY DEF Alone
<1>3. OneRuns' /\ Agree'
  BY <1>1, <1>2, QuietSteps
<1>4. Begins'
  BY <1>1, <1>2 DEF Begins, G!NoCall
<1>5. ~cut => Kept'
  <2>1. Sure' = Sure
    BY <1>1 DEF Sure, SignedUp, G!NoCall, G!Id
  <2> QED  BY <1>1, <1>2, <2>1, KeptStays
<1> QED  BY <1>1, <1>3, <1>4, <1>5 DEF Alone

\* A request is sent, broken off or over.
LEMMA RequestAlone ==
    ASSUME TypeInv, Alone, NEW c \in Commands, \A q \in Processes \ {c} : call'[q] = call[q],
           UNCHANGED <<cut, srv, tables, users, usersNew, wallets, experts>>, joined' \subseteq Sure,
           \/ call'[c] = G!NoCall \/ call'[c].at = "sent"
           \/ call'[c].at = "done" /\ call'[c].val \in Plain
    PROVE  Alone'
<1>1. OneRuns /\ Begins /\ Agree /\ (~cut => Kept)
  BY DEF Alone
<1>2. Waits(call'[c])
  BY DEF Waits
<1>3. OneRuns' /\ Agree'
  BY <1>1, <1>2, QuietSteps
<1>4. call'[Server] = call[Server] /\ \A d \in Commands \ {c} : call'[d] = call[d]
  BY ServerIsNoCommand
<1>5. Begins'
  <2>1. call'[c] # G!NoCall => call'[c].at \in {"sent", "done"}
    OBVIOUS
  <2> QED  BY <1>1, <1>4, <2>1 DEF Begins, G!NoCall
<1>6. Sure' \subseteq Sure
  <2>1. \A u : G!Id(u) \notin Plain
    BY DEF Plain, G!Id
  <2>2. ASSUME NEW u \in Users, SignedUp(c, u)' PROVE FALSE
    BY <2>1, <2>2 DEF SignedUp, G!NoCall, G!Id
  <2>3. \A d \in Commands \ {c} : \A u \in Users : SignedUp(d, u)' => SignedUp(d, u)
    BY <1>4 DEF SignedUp, G!NoCall, G!Id
  <2> QED  BY <2>2, <2>3 DEF Sure
<1>7. ~cut => Kept'
  BY <1>1, <1>4, <1>6, KeptStays
<1> QED  BY <1>3, <1>5, <1>7 DEF Alone

LEMMA CommandAlone ==
    ASSUME TypeInv, ~shared, Alone, NEW c \in Commands,
           \/ Begin(c) \/ Continue(c)
           \/ Fails(c) \/ LoseAnswer(c) \/ WalletService(c)
    PROVE  Alone'
<1>1. UNCHANGED <<cut, srv, tables, users, usersNew, wallets, experts>>
  BY DEF Begin, Continue, Fails, LoseAnswer, WalletService, registryVars, historyVars, Elsewhere, S!Unreachable,
     S!WalletNotMade, S!registryVars
<1>2. c \in Processes /\ shared = FALSE
  BY ServerIsNoCommand DEF TypeInv, JobsOK
<1>3. joined \subseteq Sure
  BY DEF Sure
<1>4. CASE Begin(c)
  <2>1. joined' = joined /\ \A q \in Processes \ {c} : call'[q] = call[q]
    BY <1>4, BeginTypes DEF Begin, historyVars
  <2>2. PICK j \in Jobs[FALSE] : Begun(j, call'[c])
    BY <1>2, <1>4, BeginTypes
  <2>3. C!Far(j)
    BY <2>2, JobsAreGood
  <2>4. call'[c].at = "sent"
    BY <2>2, <2>3 DEF Begun, Early
  <2> QED  BY <1>1, <1>3, <2>1, <2>4, RequestAlone
<1>5. CASE Continue(c)
  <2>1. /\ call[c] # G!NoCall /\ \A q \in Processes \ {c} : call'[q] = call[q]
        /\ call'[c] = G!NoCall \/ Begun(job[c], call'[c])
        /\ joined' = joined \/ \E u \in Users : SignedUp(c, u) /\ joined' = joined \cup {u}
    BY <1>5, ContinueTypes
  <2>2. C!Far(job[c])
    BY <2>1, AllFar
  <2>3. call'[c] = G!NoCall \/ call'[c].at = "sent"
    BY <2>1, <2>2 DEF Begun, Early
  <2>4. joined' \subseteq Sure
    BY <1>3, <2>1 DEF Sure
  <2> QED  BY <1>1, <2>1, <2>3, <2>4, RequestAlone
<1>6. CASE Fails(c) \/ LoseAnswer(c) \/ WalletService(c)
  <2>1. call[c] # G!NoCall /\ joined' = joined
    BY <1>6 DEF Fails, LoseAnswer, WalletService, S!Unreachable, S!WalletNotMade, G!At, S!G!At, S!G!NoCall, G!NoCall,
       Elsewhere, historyVars, ServerFault, Fault
  <2>2. PICK v \in Plain : To(c, Returned(call[c], v))
    BY <1>6, Steps, Values DEF Fails, LoseAnswer, WalletService, S!Unreachable, S!WalletNotMade
  <2>3. call'[c] = Returned(call[c], v) /\ \A q \in Processes \ {c} : call'[q] = call[q]
    BY <1>2, <2>2 DEF To, TypeInv, CallsOK
  <2>4. call[c] \in CommandCalls
    BY <1>2, <2>1, CallOf DEF TypeInv
  <2>5. call'[c].at = "done" /\ call'[c].val = v
    BY <2>3, <2>4 DEF Returned, CommandCalls, OpenCalls, UserAddCalls, WalletReads, ExpertReads, ExpertLists,
       InsertWallets, Signups, Externals, UpdateWallets, DeleteWallets, PutExperts, DisableExperts, DeleteExperts
  <2> QED  BY <1>1, <1>3, <2>1, <2>3, <2>5, RequestAlone
<1> QED  BY <1>4, <1>5, <1>6

\* The steps of processes that share the file.
LEMMA NobodyShares ==
    ASSUME TypeInv, ~shared, NEW c \in Commands
    PROVE  ~AddUser(c) /\ ~KillCommand(c) /\ ~monitorExperts /\ ~Tick
<1>1. ASSUME AddUser(c) PROVE FALSE
  <2>1. call[c] # G!NoCall /\ call[c].at \in {"insert user", "list users"}
    BY <1>1 DEF AddUser, C!executeAddUserCommand, C!listUsers, C!G!At, C!G!NoCall, G!NoCall
  <2>2. call[c] \in UserAddCalls
    BY <2>1, CallOf, Places, ServerIsNoCommand DEF TypeInv
  <2>3. call[c].m = "insertUser"
    BY <2>2 DEF UserAddCalls
  <2> QED  BY <2>1, <2>3, AllFar
<1>2. ASSUME KillCommand(c) PROVE FALSE
  <2>1. call[c] # G!NoCall
    BY <1>2 DEF KillCommand, TypeInv, JobsOK
  <2> QED  BY <1>2, <2>1, AllFar DEF KillCommand
<1> QED  BY <1>1, <1>2 DEF monitorExperts, Tick

LEMMA InitAlone == ASSUME Init PROVE Alone
<1>1. \A p \in Processes : call[p] = G!NoCall
  BY DEF Init
<1>2. OneRuns /\ Begins
  BY <1>1, ServerIsNoCommand DEF OneRuns, Begins, S!Runs, S!G!NoCall, G!NoCall
<1>3. wallets = {Main} /\ Main.user = Owner /\ Main.id = 1
  BY DEF Init, Main
<1>4. OneDefault
  BY <1>3 DEF OneDefault
<1>5. PaidWallets
  <2>1. ASSUME NEW e \in Experts, G!Exists(e) PROVE experts[e].user = Owner /\ experts[e].wallet = 1
    <3> DEFINE r == [wallet |-> 1, user |-> Owner, disabled |-> FALSE, at |-> 1]
    <3>1. experts[e] = IF e = Own THEN r ELSE G!NoExpert
      BY DEF Init
    <3>2. experts[e] = r
      BY <2>1, <3>1 DEF G!Exists, G!NoExpert
    <3> QED  BY <3>2
  <2> QED  BY <1>3, <2>1 DEF PaidWallets, G!Of
<1>6. Agree
  BY <1>1, <1>4, <1>5 DEF Agree, Ready, G!At, G!NoCall
<1>7. Kept
  <2>1. Sure = {Owner}
    BY <1>1, ServerIsNoCommand DEF Sure, SignedUp, Init
  <2>2. "users" \in tables /\ \E x : [pubkey |-> Owner, ext |-> x] \in users
    BY DEF Init
  <2>3. Sure \subseteq Rows(users)
    <3>1. PICK x : [pubkey |-> Owner, ext |-> x] \in users
      BY <2>2
    <3>2. [pubkey |-> Owner, ext |-> x].pubkey = Owner
      OBVIOUS
    <3> QED  BY <2>1, <3>1, <3>2 DEF Rows
  <2>4. \A at : ~G!At(Server, at)
    BY <1>1, ServerIsNoCommand DEF G!At
  <2> QED  BY <2>2, <2>3, <2>4 DEF Kept
<1> QED  BY <1>2, <1>6, <1>7 DEF Alone

LEMMA NextAlone ==
    ASSUME TypeInv, ~shared, Alone, [Next]_vars
    PROVE  Alone'
<1>1. CASE Next
  <2>1. CASE Process \/ CrashServer \/ StopServer
    BY <2>1, ProcessAlone, CrashAlone, StopAlone
  <2>2. CASE \E p \in Processes : Run(p)
    BY <2>2, RunAlone
  <2>3. CASE \E c \in Commands : Serve(c)
    BY <2>3, ServeAlone
  <2>4. CASE \E c \in Commands : Begin(c) \/ Continue(c) \/ Fails(c) \/ LoseAnswer(c) \/ WalletService(c)
    BY <2>4, CommandAlone
  <2>5. CASE \E c \in Commands : AddUser(c) \/ KillCommand(c)
    BY <2>5, NobodyShares
  <2>6. CASE monitorExperts \/ Tick
    BY <2>6 DEF monitorExperts, Tick
  <2> QED  BY <1>1, <2>1, <2>2, <2>3, <2>4, <2>5, <2>6, ServerIsNoCommand DEF Next
<1>2. CASE UNCHANGED vars
  <2>1. UNCHANGED <<call, srv, joined, cut, tables, users, usersNew, wallets, experts>>
    BY <1>2 DEF vars, registryVars, historyVars
  <2>2. OneRuns /\ Begins /\ Agree /\ (~cut => Kept)
    BY DEF Alone
  <2>3. OneRuns' /\ Agree'
    BY <2>1, <2>2, QuietSteps
  <2>4. Begins'
    BY <2>1, <2>2 DEF Begins, G!NoCall
  <2>5. Sure' = Sure
    BY <2>1 DEF Sure, SignedUp, G!NoCall, G!Id
  <2>6. ~cut => Kept'
    BY <2>1, <2>2, <2>5, KeptStays
  <2> QED  BY <2>1, <2>3, <2>4, <2>6 DEF Alone
<1> QED  BY <1>1, <1>2

LEMMA SharedStays ==
    ASSUME [Next]_vars
    PROVE  shared' = shared
BY DEF Next, vars, Process, CrashServer, StopServer, ServerFault, Fault, monitorExperts, Tick, Run, Serve, AddUser,
   Fails, KillCommand, LoseAnswer, WalletService, Begin, Continue, Elsewhere

LEMMA InvIsInductive == (Init => IInv) /\ (IInv /\ [Next]_vars => IInv')
<1>1. Init => IInv
  BY InitTypes, InitAlone DEF IInv
<1>2. ASSUME IInv, [Next]_vars PROVE IInv'
  BY <1>2, NextTypes, NextAlone, SharedStays DEF IInv
<1> QED  BY <1>1, <1>2

LEMMA TablesAgreeHolds == ASSUME IInv PROVE TablesAgree
<1> SUFFICES ASSUME ~shared PROVE TablesAgree
  BY DEF TablesAgree
<1>1. OneDefault /\ PaidWallets
  BY DEF IInv, Alone, Agree
<1>2. ASSUME NEW u \in Users PROVE Cardinality({w \in G!Of(u) : w.dflt}) <= 1
  <2> DEFINE D == {w \in G!Of(u) : w.dflt}
  <2>1. CASE D = {}
    <3>1. Cardinality(D) = 0
      BY <2>1, FS_EmptySet
    <3> QED  BY <3>1
  <2>2. CASE D # {}
    <3>1. PICK w \in D : TRUE
      BY <2>2
    <3>2. D = {w}
      BY <1>1, <3>1 DEF OneDefault, G!Of
    <3>3. Cardinality(D) = 1
      BY <3>2, FS_Singleton
    <3> QED  BY <3>3
  <2> QED  BY <2>1, <2>2
<1> QED  BY <1>1, <1>2 DEF TablesAgree, PaidWallets

LEMMA UsersStayHolds == ASSUME IInv PROVE UsersStay
<1> SUFFICES ASSUME ~shared, ~cut, NEW u \in joined PROVE \E r \in users \cup usersNew : r.pubkey = u
  BY DEF UsersStay
<1>1. Kept /\ u \in Sure
  BY DEF IInv, Alone, Sure
<1>2. u \in Rows(users) \/ u \in Rows(usersNew)
  BY <1>1 DEF Kept
<1> QED  BY <1>2 DEF Rows

\* As long as the server writes alone, whatever requests overlap, break off or fail: no user
\* has two default wallets, and the wallet an expert is paid to exists and is the user's.
THEOREM RowsAgree == Spec => []TablesAgree
BY InvIsInductive, TablesAgreeHolds, PTL DEF Spec

\* As long as the server writes alone, no user whose signup was answered is lost, through any
\* number of migrations and crashes but one between DROP and RENAME.
THEOREM NoUserIsLost == Spec => []UsersStay
BY InvIsInductive, UsersStayHolds, PTL DEF Spec
=============================================================================
