----------------------------- MODULE RegistryServer -----------------------------
(***************************************************************************)
(* DBServer: the HTTP API over the registry. A handler runs its statements *)
(* in one turn of the process and lets others in only while a wallet is    *)
(* made at the wallet service.                                             *)
(***************************************************************************)
EXTENDS Naturals, FiniteSets

CONSTANTS Users, Test, Names, Experts, LIMIT
VARIABLES tables, users, usersNew, wallets, made, experts, clock, top, spaced, call,
          srv   \* "down", "starting", "up" or "stopped"

G == INSTANCE Registry

Server == 0   \* the process's own call: initDatabase

registryVars == <<tables, users, usersNew, wallets, made, experts, top, spaced>>

\* The handler is between two statements: no other request has a turn.
Runs(p) == call[p] # G!NoCall /\ call[p].at \notin {"sent", "make", "bonus", "done"}

Status(k, s) == [k EXCEPT !.at = "done", !.val = [is |-> s]]
Refuses(p, s) == call' = [call EXCEPT ![p] = Status(call[p], s)]

(***************************************************************************)
(* Process                                                                 *)
(***************************************************************************)
constructor ==
    /\ srv = "down"
    /\ srv' = "starting"
    /\ call' = [call EXCEPT ![Server] = G!Call("initDatabase", "open", Test, Test, G!NoWallet)]
    /\ UNCHANGED registryVars

start ==
    /\ srv = "starting"
    /\ G!At(Server, "done")
    /\ srv' = IF call[Server].val = G!True THEN "up" ELSE "down"
    /\ call' = [call EXCEPT ![Server] = G!NoCall]
    /\ UNCHANGED registryVars

\* start() after stop() throws: the server field is never reset.
stop ==
    /\ srv = "up"
    /\ srv' = "stopped"
    /\ UNCHANGED <<registryVars, call>>

\* Every request of process set P breaks off.
Crash(P) ==
    /\ srv # "down"
    /\ srv' = "down"
    /\ call' = [p \in DOMAIN call |->
          IF p = Server THEN G!NoCall
          ELSE IF p \in P /\ call[p] # G!NoCall THEN Status(call[p], "broken") ELSE call[p]]
    /\ UNCHANGED registryVars

(***************************************************************************)
(* A request reaches its handler                                           *)
(***************************************************************************)
\* perms.getUserId knows the users of the registry.
authMiddleware(k) ==
    k.m \in {"signup", "ensureExternalUser"} \/ G!getUserByPubkey(k.user) # {}

Stopped == srv = "stopped"

\* Where the handler of a request begins. The caller's user is taken from the token, not
\* from the body.
walletReads == {"getWalletByName", "getDefaultWallet"}
walletEdits(k) ==
    CASE k.m = "insertWallet" -> IF k.key = "no nwc" THEN "make" ELSE "count"
      [] k.m = "updateWallet" -> IF k.row.dflt THEN "unset" ELSE "update"
      [] k.m = "deleteWallet" -> "used"

expertReads == {"getExpert", "listExperts"}
expertWrites == {"insertExpert", "updateExpert"}
expertEdits(k) == IF k.m = "setExpertDisabled" THEN "stamp" ELSE "drop expert"

UserMethods == {"signup", "ensureExternalUser"}

Route(k) ==
    CASE k.m \in walletReads \cup expertReads -> "read"
      [] k.m \in {"insertWallet", "updateWallet", "deleteWallet"} -> walletEdits(k)
      [] k.m \in expertWrites -> "check"
      [] k.m \in {"setExpertDisabled", "deleteExpert"} -> expertEdits(k)
      [] k.m \in UserMethods -> "find"

Receive(p) ==
    /\ G!At(p, "sent")
    /\ srv \in {"up", "stopped"}
    /\ LET k == call[p] IN
       IF ~authMiddleware(k) THEN Refuses(p, "403")
       ELSE IF Stopped THEN Refuses(p, "503")
       ELSE G!Goes(p, Route(k))
    /\ UNCHANGED <<registryVars, srv>>

\* Nobody listens: fetch fails.
Unreachable(p) ==
    /\ G!At(p, "sent")
    /\ srv \in {"down", "starting"}
    /\ Refuses(p, "broken")
    /\ UNCHANGED <<registryVars, srv>>

(***************************************************************************)
(* handleSignup, ensureExternalUser                                        *)
(***************************************************************************)
Known(k) ==
    IF k.m = "signup" THEN G!getUserByPubkey(k.key) ELSE G!getUserByExtId("ext")

FindUser(p) ==
    /\ G!At(p, "find")
    /\ IF ~G!Has("users") THEN G!Returns(p, G!Throws)
       ELSE IF Known(call[p]) # {} THEN G!Returns(p, G!Id((CHOOSE u \in Known(call[p]) : TRUE).pubkey))
       ELSE G!Goes(p, "make")
    /\ UNCHANGED <<registryVars, srv>>

\* createWallet answers: the next turn belongs to this request.
WalletMade(p) ==
    /\ G!At(p, "make")
    /\ G!Goes(p, IF call[p].m = "insertWallet" THEN "count" ELSE "user")
    /\ UNCHANGED <<registryVars, srv>>

WalletNotMade(p) ==
    /\ G!At(p, "make")
    /\ G!Returns(p, G!Throws)
    /\ UNCHANGED <<registryVars, srv>>

\* addUser: the user's row, then insertWallet with the name "main". An external user
\* gets a new key.
addUser(p) ==
    /\ G!At(p, "user")
    /\ LET k == call[p] IN
       IF k.m = "signup" THEN G!insertUser(p, "count", k.key, "")
       ELSE \E u \in Users : /\ G!getUserByPubkey(u) = {}
                             /\ G!insertUser(p, "count", u, "ext")
    /\ UNCHANGED srv

\* The welcome bonus is paid or not: its errors are caught.
Bonus(p) ==
    /\ G!At(p, "bonus")
    /\ G!Returns(p, G!Id(call[p].user))
    /\ UNCHANGED <<registryVars, srv>>

Handle(p) == Receive(p) \/ FindUser(p) \/ addUser(p)

(***************************************************************************)
(* What the handlers answer                                                *)
(***************************************************************************)
Gets == walletReads \cup {"getExpert"}
Edits == {"updateWallet", "deleteWallet", "updateExpert", "setExpertDisabled", "deleteExpert"}

Answer(k) ==
    IF k.val.is \in {"403", "503", "broken"} THEN k.val.is
    ELSE IF k.val = G!Throws \/ (k.m = "insertExpert" /\ k.val = G!False) THEN "500"
    ELSE IF (k.m \in Gets /\ k.val = G!Null) \/ (k.m \in Edits /\ k.val = G!False) THEN "404"
    ELSE "200"
=============================================================================
