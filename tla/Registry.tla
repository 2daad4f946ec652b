-------------------------------- MODULE Registry --------------------------------
(***************************************************************************)
(* The users, wallets and experts of the SQLite file that the API server,  *)
(* the commands and the scheduler share. DB runs a method as a sequence of *)
(* statements; each process runs its own, without a transaction, so those  *)
(* of two processes interleave.                                            *)
(***************************************************************************)
EXTENDS Naturals, FiniteSets

CONSTANTS Users,     \* pubkeys; a user's id stands for the pubkey
          Test,      \* the user row initDatabase inserts and deletes
          Names,     \* names of wallets, "main" among them
          Experts,   \* pubkeys of experts
          LIMIT      \* rows of one page of listExpertsAfter

VARIABLES tables,    \* which of "users", "users_new" exist
          users,     \* rows of users: [pubkey, ext]
          usersNew,  \* rows of users_new
          wallets,   \* rows of wallets: [id, name, dflt, user]
          made,      \* how many wallets were ever inserted
          experts,   \* experts[e]: [wallet, user, disabled, at], NoExpert if there is none
          clock,     \* Date.now()
          top,       \* history: the greatest timestamp written to experts
          spaced,    \* history: experts whose row is 2 ms or more from every other write
          call       \* call[p]: the method process p has under way

usersVars == <<tables, users, usersNew>>
walletVars == <<wallets, made>>
expertVars == <<experts, top, spaced>>

NoExpert == [wallet |-> 0, user |-> Test, disabled |-> FALSE, at |-> 0]
NoWallet == [id |-> 0, name |-> "main", dflt |-> FALSE, user |-> Test]
NoCall == [m |-> "none"]
Exists(e) == experts[e].at # 0

\* What a method returns or throws.
True == [is |-> "true"]
False == [is |-> "false"]
Null == [is |-> "null"]
Throws == [is |-> "throws"]
Found(row) == [is |-> "row", row |-> row]
Id(i) == [is |-> "id", id |-> i]
Rows(f) == [is |-> "rows", rows |-> f]
Bool(b) == IF b THEN True ELSE False

Call(m, at, user, key, row) ==
    [m |-> m, at |-> at, user |-> user, key |-> key, row |-> row, val |-> Null]
Goes(p, at) == call' = [call EXCEPT ![p].at = at]
Returns(p, v) == call' = [call EXCEPT ![p].at = "done", ![p].val = v]
At(p, at) == call[p] # NoCall /\ call[p].at = at

(***************************************************************************)
(* initDatabase: the users table is recreated when a test row is refused.  *)
(***************************************************************************)
Has(t) == t \in tables

CreateUsers(p) ==
    /\ At(p, "open")
    /\ tables' = tables \cup {"users"}
    /\ users' = IF Has("users") THEN users ELSE {}
    /\ Goes(p, "test")
    /\ UNCHANGED usersNew

TestRow == [pubkey |-> Test, ext |-> ""]

TestUsers(p) ==
    /\ At(p, "test")
    /\ IF Has("users") /\ TestRow \notin users
       THEN users' = users \cup {TestRow} /\ Goes(p, "untest")
       ELSE UNCHANGED users /\ Goes(p, "create")
    /\ UNCHANGED <<tables, usersNew>>

UntestUsers(p) ==
    /\ At(p, "untest")
    /\ users' = users \ {TestRow}
    /\ IF Has("users") THEN Returns(p, True) ELSE Goes(p, "create")
    /\ UNCHANGED <<tables, usersNew>>

CreateUsersNew(p) ==
    /\ At(p, "create")
    /\ IF Has("users_new") THEN Returns(p, Throws) /\ UNCHANGED usersVars
       ELSE /\ tables' = tables \cup {"users_new"} /\ usersNew' = {}
            /\ Goes(p, "copy") /\ UNCHANGED users

NothingCopied == users \cap usersNew
Copied == users

CopyUsers(p) ==
    /\ At(p, "copy")
    /\ IF Has("users") /\ Has("users_new")
       THEN usersNew' = Copied /\ Goes(p, "drop")
       ELSE UNCHANGED usersNew /\ Returns(p, Throws)
    /\ UNCHANGED <<tables, users>>

DropUsers(p) ==
    /\ At(p, "drop")
    /\ IF Has("users")
       THEN tables' = tables \ {"users"} /\ users' = {} /\ Goes(p, "rename")
       ELSE Returns(p, Throws) /\ UNCHANGED <<tables, users>>
    /\ UNCHANGED usersNew

RenameUsersNew(p) ==
    /\ At(p, "rename")
    /\ IF Has("users") \/ ~Has("users_new") THEN Returns(p, Throws) /\ UNCHANGED usersVars
       ELSE /\ tables' = {"users"} /\ users' = usersNew /\ usersNew' = {}
            /\ Returns(p, True)

initDatabase(p) ==
    /\ \/ CreateUsers(p) \/ TestUsers(p) \/ UntestUsers(p)
       \/ CreateUsersNew(p) \/ CopyUsers(p) \/ DropUsers(p) \/ RenameUsersNew(p)
    /\ UNCHANGED <<walletVars, expertVars>>

(***************************************************************************)
(* users                                                                   *)
(***************************************************************************)
getUserByPubkey(k) == {u \in users : u.pubkey = k}
getUserByExtId(x) == {u \in users : u.ext = x}

insertUser(p, at, pubkey, ext) ==
    /\ IF Has("users") /\ getUserByPubkey(pubkey) = {}
       THEN /\ users' = users \cup {[pubkey |-> pubkey, ext |-> ext]}
            /\ call' = [call EXCEPT ![p].at = at, ![p].user = pubkey]
       ELSE UNCHANGED users /\ Returns(p, Throws)
    /\ UNCHANGED <<tables, usersNew, walletVars, expertVars>>

(***************************************************************************)
(* wallets                                                                 *)
(***************************************************************************)
Of(user) == {w \in wallets : w.user = user}
FirstOf(ws) == IF ws = {} THEN Null ELSE Found(CHOOSE w \in ws : \A x \in ws : w.id <= x.id)
getWallet(id, user) == FirstOf({w \in Of(user) : w.id = id})
getWalletByName(name, user) == FirstOf({w \in Of(user) : w.name = name})
getDefaultWallet(user) == FirstOf({w \in Of(user) : w.dflt})

DefaultKept(user, id) == wallets
Undefault(user, id) ==
    {IF w.user = user /\ w.id # id THEN [w EXCEPT !.dflt = FALSE] ELSE w : w \in wallets}
NeverTaken(name, id) == FALSE
Taken(name, id) == \E w \in wallets : w.name = name /\ w.id # id

\* The first wallet of a user is the default, whatever was asked.
CountWallets(p) ==
    /\ At(p, "count")
    /\ LET k == call[p] IN
       IF k.row.dflt \/ Of(k.user) = {}
       THEN call' = [call EXCEPT ![p].at = "clear", ![p].row.dflt = TRUE]
       ELSE Goes(p, "wallet")
    /\ UNCHANGED walletVars

ClearDefault(p) ==
    /\ At(p, "clear")
    /\ wallets' = Undefault(call[p].user, 0)
    /\ Goes(p, "wallet")
    /\ UNCHANGED made

\* What the caller of insertWallet goes on with: addUser returns the user.
Inserted(k) == IF k.m = "insertWallet" THEN Id(made + 1) ELSE Id(k.user)

InsertWalletRow(p) ==
    /\ At(p, "wallet")
    /\ LET k == call[p] IN
       IF Taken(k.row.name, 0) THEN Returns(p, Throws) /\ UNCHANGED walletVars
       ELSE /\ wallets' = wallets \cup {[k.row EXCEPT !.id = made + 1, !.user = k.user]}
            /\ made' = made + 1
            /\ IF k.m = "ensureExternalUser" THEN Goes(p, "bonus") ELSE Returns(p, Inserted(k))

insertWallet(p) ==
    /\ CountWallets(p) \/ ClearDefault(p) \/ InsertWalletRow(p)
    /\ UNCHANGED <<usersVars, expertVars>>

UnsetDefault(p) ==
    /\ At(p, "unset")
    /\ wallets' = Undefault(call[p].row.user, call[p].row.id)
    /\ Goes(p, "update")

UpdateWalletRow(p) ==
    /\ At(p, "update")
    /\ LET r == call[p].row
           old == {w \in Of(r.user) : w.id = r.id}
       IN IF old # {} /\ Taken(r.name, r.id) THEN Returns(p, Throws) /\ UNCHANGED wallets
          ELSE /\ wallets' = (wallets \ old) \cup {r : w \in old}
               /\ Returns(p, Bool(old # {}))

updateWallet(p) ==
    /\ UnsetDefault(p) \/ UpdateWalletRow(p)
    /\ UNCHANGED <<made, usersVars, expertVars>>

UsedBy(id) == {e \in Experts : Exists(e) /\ experts[e].wallet = id}

CountExperts(p) ==
    /\ At(p, "used")
    /\ IF UsedBy(call[p].key) = {} THEN Goes(p, "delete") ELSE Returns(p, Throws)
    /\ UNCHANGED wallets

DeleteWalletRow(p) ==
    /\ At(p, "delete")
    /\ LET old == {w \in Of(call[p].user) : w.id = call[p].key} IN
       wallets' = wallets \ old /\ Returns(p, Bool(old # {}))

deleteWallet(p) ==
    /\ CountExperts(p) \/ DeleteWalletRow(p)
    /\ UNCHANGED <<made, usersVars, expertVars>>

(***************************************************************************)
(* experts: the timestamp is taken before the statement, which may wait    *)
(* for the lock of another process (busy_timeout).                         *)
(***************************************************************************)
getExpert(e, user) ==
    IF Exists(e) /\ experts[e].user = user THEN Found(experts[e]) ELSE Null

listExperts(user) ==
    Rows([e \in {f \in Experts : Exists(f) /\ experts[f].user = user} |-> experts[e]])

Later(s) == IF s > top THEN s ELSE top

Put(e, row) ==
    /\ experts' = [experts EXCEPT ![e] = row]
    /\ top' = Later(row.at)
    /\ spaced' = {f \in spaced \ {e} : experts[f].at + 2 <= row.at}
                   \cup {f \in {e} : top + 2 <= row.at}

\* insertExpert and updateExpert look the wallet up and take the time.
CheckWallet(p) ==
    /\ At(p, "check")
    /\ LET k == call[p] IN
       IF getWallet(k.row.wallet, k.row.user) = Null THEN Returns(p, Throws)
       ELSE call' = [call EXCEPT ![p].at = k.m, ![p].row.at = clock]
    /\ UNCHANGED expertVars

\* The nickname may be that of any other expert: it is unique.
Nicknamed(e) == \E f \in Experts \ {e} : Exists(f)

insertExpert(p) ==
    /\ At(p, "insertExpert")
    /\ LET k == call[p] IN
       \/ (Exists(k.key) \/ Nicknamed(k.key)) /\ Returns(p, False) /\ UNCHANGED expertVars
       \/ ~Exists(k.key) /\ Put(k.key, k.row) /\ Returns(p, True)

\* The row is found by its pubkey alone.
updateExpert(p) ==
    /\ At(p, "updateExpert")
    /\ LET k == call[p] IN
       \/ Exists(k.key) /\ Put(k.key, k.row) /\ Returns(p, True)
       \/ ~Exists(k.key) /\ Returns(p, False) /\ UNCHANGED expertVars
       \/ Exists(k.key) /\ Nicknamed(k.key) /\ Returns(p, Throws) /\ UNCHANGED expertVars

setExpertDisabled(p) ==
    \/ /\ At(p, "stamp")
       /\ call' = [call EXCEPT ![p].at = "disabled", ![p].row.at = clock]
       /\ UNCHANGED expertVars
    \/ /\ At(p, "disabled")
       /\ LET k == call[p] IN
          IF getExpert(k.key, k.user) = Null THEN Returns(p, False) /\ UNCHANGED expertVars
          ELSE /\ Put(k.key, [experts[k.key] EXCEPT !.disabled = k.row.disabled, !.at = k.row.at])
               /\ Returns(p, True)

\* No trace of the row is left for the scheduler to find.
deleteExpert(p) ==
    /\ At(p, "drop expert")
    /\ LET k == call[p]
           has == getExpert(k.key, k.user) # Null
       IN /\ experts' = IF has THEN [experts EXCEPT ![k.key] = NoExpert] ELSE experts
          /\ Returns(p, Bool(has))
    /\ UNCHANGED <<top, spaced>>

ExpertStatement(p) ==
    /\ \/ CheckWallet(p) \/ insertExpert(p) \/ updateExpert(p)
       \/ setExpertDisabled(p) \/ deleteExpert(p)
    /\ UNCHANGED <<usersVars, walletVars>>

\* SELECT * FROM experts WHERE timestamp > ? ORDER BY timestamp ASC LIMIT ?, as any
\* order of equal timestamps may have it.
Rest(t) == {e \in Experts : experts[e].at > t}
IsPage(page, t) ==
    /\ page \subseteq Rest(t)
    /\ Cardinality(page) = LIMIT \/ (Cardinality(page) < LIMIT /\ page = Rest(t))
Newest(t) ==
    {page \in SUBSET Experts : IsPage(page, t) /\
        \A e \in page, f \in Rest(t) \ page : experts[e].at >= experts[f].at}
listExpertsAfter(t) ==
    {page \in SUBSET Experts : IsPage(page, t) /\
        \A e \in page, f \in Rest(t) \ page : experts[e].at <= experts[f].at}

(***************************************************************************)
(* reads                                                                   *)
(***************************************************************************)
Answer(k) ==
    CASE k.m = "getWalletByName" -> getWalletByName(k.key, k.user)
      [] k.m = "getDefaultWallet" -> getDefaultWallet(k.user)
      [] k.m = "getExpert" -> getExpert(k.key, k.user)
      [] k.m = "listExperts" -> listExperts(k.user)

read(p) ==
    /\ At(p, "read")
    /\ Returns(p, Answer(call[p]))
    /\ UNCHANGED <<usersVars, walletVars, expertVars>>

Statement(p) ==
    \/ initDatabase(p) \/ insertWallet(p) \/ updateWallet(p) \/ deleteWallet(p)
    \/ ExpertStatement(p) \/ read(p)

TypeOK ==
    /\ tables \subseteq {"users", "users_new"}
    /\ users \cup usersNew \subseteq [pubkey : Users \cup {Test}, ext : {"", "ext"}]
    /\ wallets \subseteq [id : 1..made, name : Names, dflt : BOOLEAN, user : Users]
    /\ \A v, w \in wallets : v.id = w.id \/ v.name = w.name => v = w
    /\ \A u, v \in users : u.pubkey = v.pubkey => u = v
    /\ experts \in [Experts -> [wallet : 0..made, user : Users \cup {Test},
                                disabled : BOOLEAN, at : 0..clock]]
    /\ top <= clock /\ spaced \subseteq Experts
=============================================================================
