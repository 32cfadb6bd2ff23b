----------------------------- MODULE CodexToken -----------------------------
(***************************************************************************)
(* The OAuth token of the Codex provider (pkg/providers/codex): the agent's *)
(* requests that load it and refresh it on demand under Provider.mu, the   *)
(* one-off `-codex-login` process that links an account into the same      *)
(* file, and the authorization server that rotates refresh tokens.         *)
(*                                                                         *)
(* Tokens are numbered in the order the server issues them; token n names  *)
(* an access token and the refresh token that came with it. A link is one  *)
(* authorization by a person: its number also stands for its account.      *)
(*                                                                         *)
(* Environment: the server rejects a refresh token it has rotated, and     *)
(* sometimes omits the refresh token, which then stays valid. A refresh    *)
(* has no deadline of its own (http.DefaultClient, codex.go:39), and one   *)
(* that waits for the mutex does not look at its ctx.                      *)
(***************************************************************************)
EXTENDS Naturals, FiniteSets

CONSTANTS
    Requests,       \* turns of the agent that call ChatStream
    MaxIssued,      \* bound: tokens the server issues
    MaxLinks,       \* bound: authorizations a person gives
    MaxPolls,       \* maxPollAttempts (60)
    MaxCrashes,     \* bound: deaths of the agent process
    None,           \* the empty string, a nil token or a free mutex
    Failed          \* a request that got an error instead of a token

ASSUME CodexAssumption ==
    /\ {MaxIssued, MaxLinks, MaxPolls, MaxCrashes} \subseteq Nat
    /\ None \notin Requests \cup Nat
    /\ Failed \notin Requests \cup Nat
    /\ None # Failed

VARIABLES
    file,       \* the token file
    mu,         \* holder of Provider.mu
    pc,         \* pc[q]: where the request is
    tok,        \* tok[q]: the token it loaded
    reply,      \* reply[q]: the server's answer to its refresh
    got,        \* got[q]: what ensureValidToken returned last
    login,      \* where the login process is
    polls,      \* polls it has sent
    newTok,     \* the token it exchanged the code for
    issued,     \* server: tokens issued
    linkOf,     \* server: the link each token belongs to
    spent,      \* server: refresh tokens it has rotated
    links,      \* server: authorizations given
    stale,      \* access tokens within refreshBufferSecs of their expiry
    crashes,
    \* history
    lost,       \* spent refresh tokens whose successor never reached the file
    linked,     \* the link the last login saved
    undone,     \* a refresh wrote an older link over it
    due         \* due[q]: the link in force when q loaded the token

vars == <<file, mu, pc, tok, reply, got, login, polls, newTok, issued, linkOf,
          spent, links, stale, crashes, lost, linked, undone, due>>
agent == <<mu, pc, tok, reply, got, due>>
server == <<issued, linkOf, spent, links>>
loginVars == <<login, polls, newTok>>

Ids == 1..MaxIssued
Links == 1..MaxLinks
Token == [access: Ids, refresh: Ids \cup {None}, account: Links \cup {None}]

\* The claims of an access token name its account in one of three places,
\* or in none.
ExtractAccountID(link) == {link, None}

\* What the token endpoint answers for a link: the refresh token is there
\* or is missing.
Answers(link) ==
    [access: {issued + 1}, refresh: {issued + 1, None},
     account: ExtractAccountID(link)]

Init ==
    /\ file = None
    /\ mu = None
    /\ pc = [q \in Requests |-> "idle"]
    /\ tok = [q \in Requests |-> None]
    /\ reply = [q \in Requests |-> None]
    /\ got = [q \in Requests |-> None]
    /\ login = "off" /\ polls = 0 /\ newTok = None
    /\ issued = 0 /\ links = 0 /\ spent = {}
    /\ linkOf = [n \in Ids |-> 0]
    /\ stale = {} /\ crashes = 0
    /\ lost = {} /\ linked = 0 /\ undone = FALSE
    /\ due = [q \in Requests |-> 0]

-----------------------------------------------------------------------------
(* The agent: Provider.ensureValidToken.                                   *)

\* ChatStream asks for a token and waits for the mutex.
Begin(q) ==
    /\ pc[q] = "idle"
    /\ pc' = [pc EXCEPT ![q] = "locking"]
    /\ got' = [got EXCEPT ![q] = None]
    /\ UNCHANGED <<file, mu, tok, reply, due, loginVars, server, stale,
                   crashes, lost, linked, undone>>

\* The deferred unlock, and what the caller gets.
Return(q, result) ==
    /\ pc' = [pc EXCEPT ![q] = "idle"]
    /\ mu' = None
    /\ got' = [got EXCEPT ![q] = result]
    /\ tok' = [tok EXCEPT ![q] = None]
    /\ reply' = [reply EXCEPT ![q] = None]

\* The provider keeps in memory the token it loaded first.
MutLoad(q) ==
    LET known == {got[r] : r \in Requests} \ {None, Failed}
    IN  IF known = {} THEN file ELSE CHOOSE t \in known : TRUE

\* The file is there and decodes, or there is none: what Load returns.
Load(q) == file

\* The mutex is not there.
MutCanLock(q) == TRUE

\* The mutex is free.
CanLock(q) == mu = None

\* Without a token, with a fresh one or with one that cannot be refreshed
\* the request is done; otherwise it asks the server, holding the mutex.
EnsureValidToken(q) ==
    /\ pc[q] = "locking"
    /\ CanLock(q)
    /\ due' = [due EXCEPT ![q] = IF undone THEN 0 ELSE linked]
    /\ LET t == Load(q) IN
       \/ t = None /\ Return(q, Failed)
       \/ /\ t # None
          /\ t.access \notin stale \/ t.refresh = None
          /\ Return(q, t)
       \/ /\ t # None
          /\ t.access \in stale /\ t.refresh # None
          /\ mu' = q
          /\ pc' = [pc EXCEPT ![q] = "asking"]
          /\ tok' = [tok EXCEPT ![q] = t]
          /\ UNCHANGED <<reply, got>>
    /\ UNCHANGED <<file, loginVars, server, stale, crashes, lost, linked,
                   undone>>

\* The file cannot be read.
LoadFails(q) ==
    /\ pc[q] = "locking"
    /\ CanLock(q)
    /\ Return(q, Failed)
    /\ UNCHANGED <<file, due, loginVars, server, stale, crashes, lost, linked,
                   undone>>

\* The server accepts the refresh token. It issues the next access token
\* with a refresh token, which spends the old one, or without.
ServerRefreshes(q) ==
    /\ pc[q] = "asking"
    /\ tok[q].refresh \notin spent
    /\ issued < MaxIssued
    /\ LET link == linkOf[tok[q].refresh] IN
       /\ \E r \in Answers(link) :
            /\ reply' = [reply EXCEPT ![q] = r]
            /\ spent' = IF r.refresh = None THEN spent
                        ELSE spent \cup {tok[q].refresh}
       /\ linkOf' = [linkOf EXCEPT ![issued + 1] = link]
    /\ issued' = issued + 1
    /\ pc' = [pc EXCEPT ![q] = "answered"]
    /\ UNCHANGED <<file, mu, tok, got, due, loginVars, links, stale, crashes,
                   lost, linked, undone>>

\* Fields the answer leaves out are taken from the token that was loaded.
Refreshed(old, new) ==
    [access  |-> new.access,
     refresh |-> IF new.refresh = None THEN old.refresh ELSE new.refresh,
     account |-> IF new.account = None THEN old.account ELSE new.account]

\* The spent refresh tokens whose successors only these requests know.
Orphans(Q) ==
    {tok[q].refresh : q \in {x \in Q : pc[x] = "answered"
                                       /\ reply[x].refresh # None}}

\* The server rejects the refresh, the connection fails, or the turn's ctx
\* is cancelled - before or after the server has done its part. The request
\* goes on with the token it loaded.
RefreshFails(q) ==
    /\ pc[q] \in {"asking", "answered"}
    /\ Return(q, tok[q])
    /\ lost' = lost \cup Orphans({q})
    /\ UNCHANGED <<file, due, loginVars, server, stale, crashes, linked,
                   undone>>

\* The answer arrives and decodes; writeFileAtomic's rename replaces the
\* whole file.
SaveRefreshed(q) ==
    /\ pc[q] = "answered"
    /\ LET t == Refreshed(tok[q], reply[q]) IN
       /\ file' = t
       /\ undone' = (undone \/ linkOf[t.access] # linked)
       /\ Return(q, t)
    /\ UNCHANGED <<due, loginVars, server, stale, crashes, lost, linked>>

\* The unlock is not deferred: a failed save keeps the mutex.
MutSaveFails(q) ==
    /\ pc[q] = "answered"
    /\ pc' = [pc EXCEPT ![q] = "idle"]
    /\ got' = [got EXCEPT ![q] = Failed]
    /\ tok' = [tok EXCEPT ![q] = None]
    /\ reply' = [reply EXCEPT ![q] = None]
    /\ lost' = lost \cup Orphans({q})
    /\ UNCHANGED <<file, mu, due, loginVars, server, stale, crashes, linked,
                   undone>>

\* The temporary file cannot be created, written or renamed.
SaveFails(q) ==
    /\ pc[q] = "answered"
    /\ Return(q, Failed)
    /\ lost' = lost \cup Orphans({q})
    /\ UNCHANGED <<file, due, loginVars, server, stale, crashes, linked,
                   undone>>

\* The process dies: its requests and its mutex are gone.
AgentCrash ==
    /\ crashes < MaxCrashes
    /\ crashes' = crashes + 1
    /\ mu' = None
    /\ pc' = [q \in Requests |-> "idle"]
    /\ tok' = [q \in Requests |-> None]
    /\ reply' = [q \in Requests |-> None]
    /\ got' = [q \in Requests |-> None]
    /\ lost' = lost \cup Orphans(Requests)
    /\ UNCHANGED <<file, due, loginVars, server, stale, linked, undone>>

-----------------------------------------------------------------------------
(* The login process.                                                      *)

\* StartDeviceFlow gets its device and user codes.
StartDeviceFlow ==
    /\ login = "off"
    /\ links < MaxLinks
    /\ login' = "polling"
    /\ polls' = 0
    /\ UNCHANGED <<file, agent, newTok, server, stale, crashes, lost, linked,
                   undone>>

\* The person has entered the code: the poll returns an authorization code.
PollAuthorized ==
    /\ login = "polling"
    /\ polls < MaxPolls
    /\ login' = "exchanging"
    /\ UNCHANGED <<file, agent, polls, newTok, server, stale, crashes, lost,
                   linked, undone>>

\* A status of 300 or more, a body that does not decode or one without the
\* codes: the poll counts as not authorized yet.
PollAgain ==
    /\ login = "polling"
    /\ polls < MaxPolls
    /\ polls' = polls + 1
    /\ UNCHANGED <<file, agent, login, newTok, server, stale, crashes, lost,
                   linked, undone>>

\* ExchangeCode: the server issues the first token of a new link.
ExchangeCode ==
    /\ login = "exchanging"
    /\ issued < MaxIssued
    /\ links < MaxLinks
    /\ newTok' \in Answers(links + 1)
    /\ linkOf' = [linkOf EXCEPT ![issued + 1] = links + 1]
    /\ issued' = issued + 1
    /\ links' = links + 1
    /\ login' = "saving"
    /\ UNCHANGED <<file, agent, polls, spent, stale, crashes, lost, linked,
                   undone>>

\* Login saves the token as it came: nothing of the old file is kept.
SaveLogin ==
    /\ login = "saving"
    /\ file' = newTok
    /\ linked' = linkOf[newTok.access]
    /\ undone' = FALSE
    /\ login' = "off" /\ newTok' = None
    /\ UNCHANGED <<agent, polls, server, stale, crashes, lost>>

\* A network error, a 30 s timeout of its client, a failed save, a signal:
\* the process ends and leaves the file alone. So it does after the last
\* poll.
LoginFails ==
    /\ login # "off"
    /\ login' = "off" /\ newTok' = None
    /\ UNCHANGED <<file, agent, polls, server, stale, crashes, lost, linked,
                   undone>>

-----------------------------------------------------------------------------
\* An access token comes close to its expiry; one issued for less than
\* refreshBufferSecs is there at once.
Expire(n) ==
    /\ n \in 1..issued
    /\ n \notin stale
    /\ stale' = stale \cup {n}
    /\ UNCHANGED <<file, agent, loginVars, server, crashes, lost, linked,
                   undone>>

Request(q) ==
    \/ Begin(q) \/ EnsureValidToken(q) \/ LoadFails(q)
    \/ ServerRefreshes(q) \/ RefreshFails(q)
    \/ SaveRefreshed(q) \/ SaveFails(q)

LoginStep ==
    \/ PollAuthorized \/ PollAgain
    \/ ExchangeCode \/ SaveLogin \/ LoginFails

Next ==
    \/ \E q \in Requests : Request(q)
    \/ StartDeviceFlow \/ LoginStep
    \/ AgentCrash
    \/ \E n \in Ids : Expire(n)

Spec == Init /\ [][Next]_vars

\* Nothing makes a refresh end: the server may be silent for ever. A waiter
\* of sync.Mutex does not starve, and the login's client has a timeout, so
\* each step of the login ends one way or the other.
Fairness ==
    /\ \A q \in Requests : SF_vars(EnsureValidToken(q) \/ LoadFails(q))
    /\ WF_vars(LoginStep)

FairSpec == Spec /\ Fairness

-----------------------------------------------------------------------------
\* Every variable has its type, and the mutex is held exactly by the request
\* that refreshes.
TypeOK ==
    /\ file \in Token \cup {None}
    /\ mu \in Requests \cup {None}
    /\ pc \in [Requests -> {"idle", "locking", "asking", "answered"}]
    /\ tok \in [Requests -> Token \cup {None}]
    /\ reply \in [Requests -> Token \cup {None}]
    /\ got \in [Requests -> Token \cup {None, Failed}]
    /\ login \in {"off", "polling", "exchanging", "saving"}
    /\ polls \in 0..MaxPolls
    /\ newTok \in Token \cup {None}
    /\ issued \in 0..MaxIssued
    /\ linkOf \in [Ids -> Links \cup {0}]
    /\ links \in 0..MaxLinks
    /\ spent \cup lost \cup stale \subseteq Ids
    /\ crashes \in 0..MaxCrashes
    /\ linked \in 0..MaxLinks
    /\ undone \in BOOLEAN
    /\ due \in [Requests -> Links \cup {0}]
    /\ \A q \in Requests : pc[q] \in {"asking", "answered"} => mu = q

\* The refresh token in the file is one the server still accepts, or its
\* successor is on the way to the file, or that successor was lost with an
\* answer, a save or the process: two requests never save over each other
\* (the mutex held from Load to Save, codex.go:51).
LinkSurvives ==
    \/ file = None
    \/ file.refresh \notin spent
    \/ file.refresh \in lost \cup Orphans(Requests)

\* Once a login has saved its link, every request that then loads the token
\* answers with that link's token and no other link's account, until a
\* refresh that was already on its way writes the old link back
\* (oauth.go:293, codex.go:83).
LoginTakesEffect ==
    \A q \in Requests :
        \/ pc[q] # "idle"
        \/ got[q] \in {None, Failed}
        \/ due[q] = 0
        \/ /\ linkOf[got[q].access] = due[q]
           /\ got[q].account \in {due[q], None}

\* A request waits for the mutex for ever only behind a refresh that itself
\* never ends, and a login always ends: errors release the mutex too.
NobodyWaitsForever ==
    /\ \A q \in Requests :
         \/ (pc[q] = "locking") ~> (pc[q] # "locking")
         \/ <>[](\E r \in Requests : pc[r] \in {"asking", "answered"})
    /\ (login # "off") ~> (login = "off")

=============================================================================
