----------------------------- MODULE RegistryClient -----------------------------
(***************************************************************************)
(* DBInterface as a command sees it, through DBClient in its own process   *)
(* or DBRemoteClient, and the commands: each is a chain of calls, in which *)
(* a later call writes what an earlier one read.                           *)
(***************************************************************************)
EXTENDS Naturals, FiniteSets

CONSTANTS Users, Test, Names, Experts, LIMIT
VARIABLES tables, users, usersNew, wallets, made, experts, clock, top, spaced, call, srv

S == INSTANCE RegistryServer
G == INSTANCE Registry

Far(j) == j.via = "http"

(***************************************************************************)
(* Results: DBRemoteClient makes the status a result                       *)
(***************************************************************************)
Or(r, v) == IF r THEN v ELSE G!Throws
walletRead(k, s) == Or(s \in {"200", "404"}, k.val)
walletInsert(k, s) == Or(s = "200", k.val)
\* An edit that was applied and whose answer is lost returns false.
walletEdit(k, s) == G!Bool(s = "200")
expertRead(k, s) == walletRead(k, s)
expertList(k, s) == walletInsert(k, s)
expertEdit(k, s) == G!Bool(s = "200")
signup(k, s) == walletInsert(k, s)

Remote(k) ==
    LET s == S!Answer(k) IN
    CASE k.m \in {"getWalletByName", "getDefaultWallet"} -> walletRead(k, s)
      [] k.m = "insertWallet" -> walletInsert(k, s)
      [] k.m \in {"updateWallet", "deleteWallet"} -> walletEdit(k, s)
      [] k.m = "getExpert" -> expertRead(k, s)
      [] k.m = "listExperts" -> expertList(k, s)
      [] k.m \in S!UserMethods -> signup(k, s)
      [] OTHER -> expertEdit(k, s)

\* DBClient passes on what DB returns to the user.
Local(k) == k.val

Result(j, k) == IF Far(j) THEN Remote(k) ELSE Local(k)

(***************************************************************************)
(* Calls                                                                   *)
(***************************************************************************)
createDBClientForCommands(j, m, key, row) ==
    LET k == G!Call(m, "sent", j.user, key, row)
    IN IF Far(j) THEN k ELSE [k EXCEPT !.at = S!Route(k)]

Ask(j, m, key, row) == {createDBClientForCommands(j, m, key, row)}
End == {G!NoCall}
Plain(j, m, key) == Ask(j, m, key, G!NoWallet)

HasRow(v) == v.is = "row"
WalletOf(j) == [id |-> 0, name |-> j.name, dflt |-> j.dflt, user |-> j.user]
ExpertOf(j, id) == [wallet |-> id, user |-> j.user, disabled |-> FALSE, at |-> 0]
Disabled(b) == [G!NoExpert EXCEPT !.disabled = b]

(***************************************************************************)
(* Commands: the calls that may follow call k, which returned v            *)
(***************************************************************************)
executeAddWalletCommand(j, k, v) ==
    IF k.m = "getWalletByName" /\ v = G!Null
    THEN Ask(j, "insertWallet", "nwc", WalletOf(j)) ELSE End

\* The wallet service may fail before the row is inserted.
executeCreateWalletCommand(j, k, v) == End \cup executeAddWalletCommand(j, k, v)

executeUpdateWalletCommand(j, k, v) ==
    IF k.m = "getWalletByName" /\ HasRow(v)
    THEN Ask(j, "updateWallet", "", [v.row EXCEPT !.dflt = j.dflt]) ELSE End

\* The user may not confirm.
executeDeleteWalletCommand(j, k, v) ==
    IF k.m = "getWalletByName" /\ HasRow(v)
    THEN End \cup Plain(j, "deleteWallet", v.row.id) ELSE End

\* row: what the command holds meanwhile.
getWalletByNameOrDefault(j, row) ==
    IF j.dflt THEN Ask(j, "getDefaultWallet", "", row) ELSE Ask(j, "getWalletByName", j.name, row)

createExpert(j, k, v) ==
    IF k.m # "insertExpert" /\ HasRow(v)
    THEN Ask(j, "insertExpert", j.e, ExpertOf(j, v.row.id)) ELSE End

\* The whole row is written back as it was read, or with another wallet.
updateExpert(j, k, v) ==
    CASE k.m = "getExpert" /\ HasRow(v) ->
            Ask(j, "updateExpert", j.e, v.row) \cup getWalletByNameOrDefault(j, v.row)
      [] k.m \in {"getWalletByName", "getDefaultWallet"} /\ HasRow(v) ->
            Ask(j, "updateExpert", j.e, [k.row EXCEPT !.wallet = v.row.id])
      [] OTHER -> End

deleteExpert(j, k, v) ==
    IF k.m = "getExpert" /\ HasRow(v) THEN End \cup Plain(j, "deleteExpert", j.e) ELSE End

\* The expert of one model, which may be accessible, inaccessible or gone.
Listed(j, v) == v.is = "rows" /\ j.e \in DOMAIN v.rows
Unlisted(j, v) == v.is = "rows" /\ j.e \notin DOMAIN v.rows
Disable(j) == Ask(j, "setExpertDisabled", j.e, Disabled(TRUE))
Unchanged(disabled) == IF disabled THEN End ELSE {}
createOpenRouterExpert(j, k) == Ask(j, "insertExpert", j.e, ExpertOf(j, k.row.id))

manageOpenRouterExperts(j, k, v) ==
    CASE k.m = "getDefaultWallet" /\ HasRow(v) -> Ask(j, "listExperts", j.e, v.row)
      [] k.m = "listExperts" /\ Unlisted(j, v) -> End \cup createOpenRouterExpert(j, k)
      [] k.m = "listExperts" /\ Listed(j, v) ->
            Disable(j) \cup Unchanged(v.rows[j.e].disabled) \cup
            Ask(j, "updateExpert", j.e, [v.rows[j.e] EXCEPT !.disabled = FALSE])
      [] OTHER -> End

\* An hour later, with the wallet of the start.
refreshExperts(j, k, v) ==
    CASE k.m = "listExperts" /\ Unlisted(j, v) -> End \cup createOpenRouterExpert(j, k)
      [] k.m = "listExperts" /\ Listed(j, v) ->
            Disable(j) \cup End \cup
            (IF v.rows[j.e].disabled THEN Ask(j, "setExpertDisabled", j.e, Disabled(FALSE)) ELSE {})
      [] OTHER -> End

Cmds == {"wallet add", "wallet create", "wallet update", "wallet delete", "expert create",
         "expert update", "expert delete", "openrouter", "refresh", "user add", "signup",
         "external", "insert"}

\* The first call of a command. "insert" is a client of the API without a wallet string.
First(j) ==
    CASE j.cmd \in {"wallet add", "wallet create", "wallet update", "wallet delete"} ->
            Plain(j, "getWalletByName", j.name)
      [] j.cmd = "expert create" -> getWalletByNameOrDefault(j, G!NoWallet)
      [] j.cmd \in {"expert update", "expert delete"} -> Plain(j, "getExpert", j.e)
      [] j.cmd = "openrouter" -> Plain(j, "getDefaultWallet", "")
      [] j.cmd = "refresh" -> Ask(j, "listExperts", j.e, [G!NoWallet EXCEPT !.id = 1])
      [] j.cmd = "insert" -> Ask(j, "insertWallet", "no nwc", WalletOf(j))
      [] j.cmd = "user add" ->
            {G!Call("insertUser", "insert user", j.user, j.user, G!NoWallet)}
      [] j.cmd = "signup" -> Ask(j, "signup", j.user, [G!NoWallet EXCEPT !.dflt = TRUE])
      [] j.cmd = "external" -> Ask(j, "ensureExternalUser", "", [G!NoWallet EXCEPT !.dflt = TRUE])

\* A command with a file opens it first.
Opens(j) ==
    IF Far(j) THEN First(j) ELSE {G!Call("initDatabase", "open", j.user, "", G!NoWallet)}

Follows(j, k, v) ==
    IF k.m = "initDatabase" THEN (IF v = G!True THEN First(j) ELSE End)
    ELSE CASE j.cmd = "wallet add" -> executeAddWalletCommand(j, k, v)
           [] j.cmd = "wallet create" -> executeCreateWalletCommand(j, k, v)
           [] j.cmd = "wallet update" -> executeUpdateWalletCommand(j, k, v)
           [] j.cmd = "wallet delete" -> executeDeleteWalletCommand(j, k, v)
           [] j.cmd = "expert create" -> createExpert(j, k, v)
           [] j.cmd = "expert update" -> updateExpert(j, k, v)
           [] j.cmd = "expert delete" -> deleteExpert(j, k, v)
           [] j.cmd = "openrouter" -> manageOpenRouterExperts(j, k, v)
           [] j.cmd = "refresh" -> refreshExperts(j, k, v)
           [] OTHER -> End

\* executeAddUserCommand: DB is used without a client.
executeAddUserCommand(c) ==
    /\ G!At(c, "insert user")
    /\ G!insertUser(c, "list users", call[c].key, "")

listUsers(c) == G!At(c, "list users") /\ G!Returns(c, G!Id(call[c].user))
=============================================================================
