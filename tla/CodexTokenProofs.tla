-------------------------- MODULE CodexTokenProofs --------------------------
(***************************************************************************)
(* Proofs about CodexToken, for any number of requests, tokens, links,     *)
(* polls and crashes.                                                      *)
(***************************************************************************)
EXTENDS CodexToken, TLAPS

-----------------------------------------------------------------------------
(* The tokens that travel                                                  *)

Refreshing == {q \in Requests : pc[q] \in {"asking", "answered"}}
Answered == {q \in Requests : pc[q] = "answered"}

\* One of the first n tokens the server issued, whose links are in of: both
\* of its parts belong to one link, and it names that link's account or none.
GenuineAmong(t, n, of) ==
    /\ t \in Token
    /\ t.access \in 1..n
    /\ of[t.access] \in Links
    /\ t.refresh \in (1..n) \cup {None}
    /\ t.refresh # None => of[t.refresh] = of[t.access]
    /\ t.account \in {of[t.access], None}

Genuine(t) == GenuineAmong(t, issued, linkOf)

\* All tokens in the file and in flight are genuine, and an answer is of the
\* link of the token it refreshes.
TokensAreGenuine ==
    /\ file # None => Genuine(file)
    /\ \A q \in Refreshing : Genuine(tok[q]) /\ tok[q].refresh # None
    /\ \A q \in Answered :
         Genuine(reply[q]) /\ linkOf[reply[q].access] = linkOf[tok[q].access]
    /\ \A q \in Requests : got[q] \notin {None, Failed} => Genuine(got[q])
    /\ login = "saving" => Genuine(newTok)

\* What is about to be saved has a refresh token nobody has used, and nobody
\* but the login knows the one it is about to save.
SavesAreFresh ==
    /\ spent \subseteq 1..issued
    /\ \A q \in Answered : Refreshed(tok[q], reply[q]).refresh \notin spent
    /\ login = "saving" /\ newTok.refresh # None =>
         /\ newTok.refresh \notin spent
         /\ file # None => file.refresh # newTok.refresh
         /\ \A q \in Refreshing : tok[q].refresh # newTok.refresh
         /\ \A q \in Answered : reply[q].refresh # newTok.refresh

\* What is loaded belongs to the last login, unless an older link was
\* written back over it.
LinkIsCurrent ==
    /\ \A q \in Requests : pc[q] # "idle" => got[q] = None
    /\ file # None => undone \/ linkOf[file.access] = linked
    /\ \A q \in Refreshing : due[q] # 0 => linkOf[tok[q].access] = due[q]
    /\ \A q \in Requests :
         got[q] \notin {None, Failed} /\ due[q] # 0 =>
            linkOf[got[q].access] = due[q]

TokenInv ==
    TypeOK /\ TokensAreGenuine /\ SavesAreFresh /\ LinkSurvives /\ LinkIsCurrent

-----------------------------------------------------------------------------
(* Types                                                                   *)

LEMMA TypesInitially == Init => TypeOK
  <1> SUFFICES ASSUME Init PROVE TypeOK
    OBVIOUS
  <1>1. undone \in BOOLEAN
    BY DEF Init
  <1> QED BY <1>1, CodexAssumption DEF CodexAssumption, Init, TypeOK, Ids

\* What the server answers is a token.
LEMMA AnswersAreTokens ==
    ASSUME TypeOK, issued < MaxIssued, NEW link \in Links, NEW r \in Answers(link)
    PROVE  r \in Token
  BY CodexAssumption DEF CodexAssumption, TypeOK, Answers, ExtractAccountID, Token, Ids, Links

\* Fields taken from the old token keep the new one a token.
LEMMA RefreshedIsToken ==
    ASSUME NEW old \in Token, NEW new \in Token
    PROVE  /\ Refreshed(old, new) \in Token
           /\ Refreshed(old, new).access = new.access
           /\ Refreshed(old, new).refresh
                = IF new.refresh = None THEN old.refresh ELSE new.refresh
           /\ Refreshed(old, new).account
                = IF new.account = None THEN old.account ELSE new.account
  BY DEF Refreshed, Token

\* The server never takes a token back.
LEMMA GenuineStays ==
    ASSUME NEW t, NEW n \in Nat, NEW m \in Nat, n <= m, NEW of, NEW to,
           \A i \in 1..n : to[i] = of[i], GenuineAmong(t, n, of)
    PROVE  GenuineAmong(t, m, to)
  BY CodexAssumption DEF CodexAssumption, GenuineAmong

\* Its answer is a token of the link it was asked for.
LEMMA AnswersAreGenuine ==
    ASSUME TypeOK, issued < MaxIssued, NEW link \in Links, NEW r \in Answers(link)
    PROVE  /\ GenuineAmong(r, issued + 1, [linkOf EXCEPT ![issued + 1] = link])
           /\ [linkOf EXCEPT ![issued + 1] = link][r.access] = link
           /\ r.refresh \in {issued + 1, None}
           /\ \A i \in 1..issued :
                [linkOf EXCEPT ![issued + 1] = link][i] = linkOf[i]
  <1> DEFINE of == [linkOf EXCEPT ![issued + 1] = link]
  <1>1. r \in Token
    BY AnswersAreTokens
  <1>2. /\ r.access = issued + 1 /\ r.refresh \in {issued + 1, None}
        /\ r.account \in {link, None}
    BY DEF Answers, ExtractAccountID
  <1>3. issued \in Nat /\ issued + 1 \in Ids
    BY CodexAssumption DEF CodexAssumption, TypeOK, Ids
  <1>4. of[issued + 1] = link /\ \A i \in 1..issued : of[i] = linkOf[i]
    BY <1>3, CodexAssumption DEF CodexAssumption, TypeOK, Ids
  <1> HIDE DEF of
  <1>5. GenuineAmong(r, issued + 1, of)
    BY <1>1, <1>2, <1>3, <1>4 DEF GenuineAmong
  <1> QED BY <1>2, <1>4, <1>5 DEF of

\* A token refreshed by one of its own link stays one.
LEMMA RefreshedIsGenuine ==
    ASSUME NEW n, NEW of, NEW old, GenuineAmong(old, n, of),
           NEW new, GenuineAmong(new, n, of), of[new.access] = of[old.access]
    PROVE  /\ GenuineAmong(Refreshed(old, new), n, of)
           /\ Refreshed(old, new).access = new.access
  BY RefreshedIsToken DEF GenuineAmong

LEMMA TypesPreserved == TypeOK /\ TokensAreGenuine /\ [Next]_vars => TypeOK'
  <1> SUFFICES ASSUME TypeOK, TokensAreGenuine, [Next]_vars PROVE TypeOK'
    OBVIOUS
  <1> USE CodexAssumption DEF CodexAssumption, TypeOK, TokensAreGenuine, Genuine,
                            GenuineAmong, Answered, Refreshing, Ids, Links
  <1>1. ASSUME NEW q \in Requests, Begin(q) PROVE TypeOK'
    BY <1>1 DEF Begin, loginVars, server
  <1>2. ASSUME NEW q \in Requests, EnsureValidToken(q) PROVE TypeOK'
    <2>1. due' \in [Requests -> Links \cup {0}]
      BY <1>2 DEF EnsureValidToken
    <2>2. CASE Return(q, Failed)
      BY <1>2, <2>1, <2>2 DEF EnsureValidToken, CanLock, Return, loginVars,
                              server
    <2>3. CASE file # None /\ Return(q, file)
      BY <1>2, <2>1, <2>3 DEF EnsureValidToken, CanLock, Return, loginVars,
                              server
    <2>4. CASE /\ file # None
               /\ mu' = q
               /\ pc' = [pc EXCEPT ![q] = "asking"]
               /\ tok' = [tok EXCEPT ![q] = file]
               /\ UNCHANGED <<reply, got>>
      BY <1>2, <2>1, <2>4 DEF EnsureValidToken, CanLock, loginVars, server
    <2> QED BY <1>2, <2>2, <2>3, <2>4 DEF EnsureValidToken, Load
  <1>3. ASSUME NEW q \in Requests, LoadFails(q) PROVE TypeOK'
    BY <1>3 DEF LoadFails, CanLock, Return, loginVars, server
  <1>4. ASSUME NEW q \in Requests, ServerRefreshes(q) PROVE TypeOK'
    <2>1. tok[q] \in Token /\ linkOf[tok[q].refresh] \in Links
      BY <1>4 DEF ServerRefreshes
    <2>2. PICK r \in Answers(linkOf[tok[q].refresh]) :
            /\ reply' = [reply EXCEPT ![q] = r]
            /\ spent' = IF r.refresh = None THEN spent
                        ELSE spent \cup {tok[q].refresh}
      BY <1>4 DEF ServerRefreshes
    <2>3. r \in Token
      BY <1>4, <2>1, AnswersAreTokens DEF ServerRefreshes
    <2>4. spent' \subseteq Ids
      BY <1>4, <2>1, <2>2 DEF ServerRefreshes
    <2> QED BY <1>4, <2>1, <2>2, <2>3, <2>4 DEF ServerRefreshes, loginVars
  <1>5. ASSUME NEW q \in Requests, RefreshFails(q) PROVE TypeOK'
    BY <1>5 DEF RefreshFails, Return, Orphans, loginVars, server
  <1>6. ASSUME NEW q \in Requests, SaveRefreshed(q) PROVE TypeOK'
    <2>1. tok[q] \in Token /\ reply[q] \in Token
      BY <1>6 DEF SaveRefreshed
    <2>2. Refreshed(tok[q], reply[q]) \in Token
      BY <2>1, RefreshedIsToken
    <2>3. undone' \in BOOLEAN
      BY <1>6 DEF SaveRefreshed
    <2> QED
      BY <1>6, <2>2, <2>3 DEF SaveRefreshed, Return, loginVars, server
  <1>7. ASSUME NEW q \in Requests, SaveFails(q) PROVE TypeOK'
    BY <1>7 DEF SaveFails, Return, Orphans, loginVars, server
  <1>8. CASE StartDeviceFlow
    BY <1>8 DEF StartDeviceFlow, agent, server
  <1>9. CASE PollAuthorized
    BY <1>9 DEF PollAuthorized, agent, server
  <1>10. CASE PollAgain
    BY <1>10 DEF PollAgain, agent, server
  <1>11. CASE ExchangeCode
    BY <1>11, AnswersAreTokens DEF ExchangeCode, agent
  <1>12. CASE SaveLogin
    <2>1. newTok \in Token /\ linkOf[newTok.access] \in 0..MaxLinks
      BY <1>12 DEF SaveLogin
    <2>2. undone' \in BOOLEAN
      BY <1>12 DEF SaveLogin
    <2> QED BY <1>12, <2>1, <2>2 DEF SaveLogin, agent, server
  <1>13. CASE LoginFails
    BY <1>13 DEF LoginFails, agent, server
  <1>14. CASE AgentCrash
    BY <1>14 DEF AgentCrash, Orphans, loginVars, server
  <1>15. ASSUME NEW n \in Ids, Expire(n) PROVE TypeOK'
    BY <1>15 DEF Expire, agent, loginVars, server
  <1>16. CASE UNCHANGED vars
    BY <1>16 DEF vars
  <1> QED
    BY <1>1, <1>2, <1>3, <1>4, <1>5, <1>6, <1>7, <1>8, <1>9, <1>10, <1>11,
       <1>12, <1>13, <1>14, <1>15, <1>16 DEF Next, Request, LoginStep

-----------------------------------------------------------------------------
(* The tokens stay genuine                                                 *)

LEMMA GenuinePreserved ==
    TypeOK /\ TypeOK' /\ TokensAreGenuine /\ [Next]_vars => TokensAreGenuine'
  <1> SUFFICES ASSUME TypeOK, TypeOK', TokensAreGenuine, [Next]_vars
               PROVE  TokensAreGenuine'
    OBVIOUS
  <1> USE DEF TypeOK, TokensAreGenuine, Genuine, Answered, Refreshing
  <1>1. ASSUME NEW q \in Requests, Begin(q) PROVE TokensAreGenuine'
    BY <1>1 DEF Begin, loginVars, server
  <1>2. ASSUME NEW q \in Requests, EnsureValidToken(q) PROVE TokensAreGenuine'
    BY <1>2 DEF EnsureValidToken, CanLock, Load, Return, loginVars, server
  <1>3. ASSUME NEW q \in Requests, LoadFails(q) PROVE TokensAreGenuine'
    BY <1>3 DEF LoadFails, CanLock, Return, loginVars, server
  <1>4. ASSUME NEW q \in Requests, ServerRefreshes(q) PROVE TokensAreGenuine'
    <2> DEFINE link == linkOf[tok[q].refresh]
    <2>1. Genuine(tok[q]) /\ tok[q].refresh # None
      BY <1>4 DEF ServerRefreshes
    <2>2. link \in Links /\ link = linkOf[tok[q].access]
      BY <2>1 DEF GenuineAmong
    <2>3. PICK r \in Answers(link) : reply' = [reply EXCEPT ![q] = r]
      BY <1>4 DEF ServerRefreshes
    <2>4. /\ issued < MaxIssued /\ issued' = issued + 1
          /\ linkOf' = [linkOf EXCEPT ![issued + 1] = link]
          /\ pc' = [pc EXCEPT ![q] = "answered"]
          /\ UNCHANGED <<file, tok, got, login, newTok>>
      BY <1>4 DEF ServerRefreshes, loginVars
    <2> HIDE DEF link
    <2>5. /\ GenuineAmong(r, issued', linkOf')
          /\ linkOf'[r.access] = link
          /\ \A i \in 1..issued : linkOf'[i] = linkOf[i]
      <3> HIDE DEF TypeOK, TokensAreGenuine
      <3>1. r \in Answers(link) /\ link \in Links /\ issued < MaxIssued /\ TypeOK
        BY <2>2, <2>3, <2>4
      <3> QED BY <2>4, <3>1, AnswersAreGenuine
    <2>6. \A t : Genuine(t) => GenuineAmong(t, issued', linkOf')
      <3>1. issued \in Nat /\ issued' \in Nat /\ issued <= issued'
        BY <2>4, CodexAssumption DEF CodexAssumption
      <3> HIDE DEF TypeOK, TokensAreGenuine
      <3> QED BY <2>5, <3>1, GenuineStays
    <2>7. linkOf'[tok[q].access] = link
      BY <2>1, <2>2, <2>5 DEF GenuineAmong
    <2>8. \A x \in Answered : linkOf'[reply[x].access] = linkOf'[tok[x].access]
      BY <2>5 DEF GenuineAmong
    <2>9. /\ Answered' = Answered \cup {q} /\ Refreshing' = Refreshing
          /\ reply'[q] = r
          /\ \A x \in Requests : x # q => reply'[x] = reply[x]
      BY <1>4, <2>3, <2>4 DEF ServerRefreshes
    <2>10. \A x \in Answered' :
             /\ GenuineAmong(reply'[x], issued', linkOf')
             /\ linkOf'[reply'[x].access] = linkOf'[tok'[x].access]
      BY <2>2, <2>4, <2>5, <2>6, <2>7, <2>8, <2>9
    <2> QED BY <2>4, <2>6, <2>9, <2>10
  <1>5. ASSUME NEW q \in Requests, RefreshFails(q) PROVE TokensAreGenuine'
    BY <1>5 DEF RefreshFails, Return, loginVars, server
  <1>6. ASSUME NEW q \in Requests, SaveRefreshed(q) PROVE TokensAreGenuine'
    <2>1. Genuine(Refreshed(tok[q], reply[q]))
      BY <1>6, RefreshedIsGenuine DEF SaveRefreshed
    <2> QED BY <1>6, <2>1 DEF SaveRefreshed, Return, loginVars, server
  <1>7. ASSUME NEW q \in Requests, SaveFails(q) PROVE TokensAreGenuine'
    BY <1>7 DEF SaveFails, Return, loginVars, server
  <1>8. CASE StartDeviceFlow
    BY <1>8 DEF StartDeviceFlow, agent, server
  <1>9. CASE PollAuthorized
    BY <1>9 DEF PollAuthorized, agent, server
  <1>10. CASE PollAgain
    BY <1>10 DEF PollAgain, agent, server
  <1>11. CASE ExchangeCode
    <2>1. /\ issued < MaxIssued /\ issued' = issued + 1
          /\ links < MaxLinks
          /\ linkOf' = [linkOf EXCEPT ![issued + 1] = links + 1]
          /\ newTok' \in Answers(links + 1)
          /\ UNCHANGED <<file, pc, tok, reply, got>>
      BY <1>11 DEF ExchangeCode, agent
    <2>2. links + 1 \in Links
      BY <2>1, CodexAssumption DEF CodexAssumption, Links
    <2>3. /\ GenuineAmong(newTok', issued', linkOf')
          /\ \A i \in 1..issued : linkOf'[i] = linkOf[i]
      <3> HIDE DEF TypeOK
      <3> QED BY <2>1, <2>2, AnswersAreGenuine
    <2>4. \A t : Genuine(t) => GenuineAmong(t, issued', linkOf')
      <3>1. issued \in Nat /\ issued' \in Nat /\ issued <= issued'
        BY <2>1, CodexAssumption DEF CodexAssumption
      <3> HIDE DEF TypeOK, TokensAreGenuine
      <3> QED BY <2>3, <3>1, GenuineStays
    <2>5. \A q \in Answered : linkOf'[reply[q].access] = linkOf'[tok[q].access]
      BY <2>3 DEF GenuineAmong
    <2> QED BY <2>1, <2>3, <2>4, <2>5
  <1>12. CASE SaveLogin
    BY <1>12 DEF SaveLogin, agent, server
  <1>13. CASE LoginFails
    BY <1>13 DEF LoginFails, agent, server
  <1>14. CASE AgentCrash
    BY <1>14 DEF AgentCrash, loginVars, server
  <1>15. ASSUME NEW n \in Ids, Expire(n) PROVE TokensAreGenuine'
    BY <1>15 DEF Expire, agent, loginVars, server
  <1>16. CASE UNCHANGED vars
    BY <1>16 DEF vars
  <1> QED
    BY <1>1, <1>2, <1>3, <1>4, <1>5, <1>6, <1>7, <1>8, <1>9,
       <1>10, <1>11, <1>12, <1>13, <1>14, <1>15, <1>16
    DEF Next, Request, LoginStep

-----------------------------------------------------------------------------
(* No spent refresh token is saved                                         *)

LEMMA FreshPreserved ==
    TypeOK /\ TypeOK' /\ TokensAreGenuine /\ SavesAreFresh /\ [Next]_vars => SavesAreFresh'
  <1> SUFFICES ASSUME TypeOK, TypeOK', TokensAreGenuine, SavesAreFresh, [Next]_vars
               PROVE  SavesAreFresh'
    OBVIOUS
  <1> USE CodexAssumption DEF CodexAssumption, TypeOK, Genuine, GenuineAmong, Answered,
          Refreshing, Ids, Links, TokensAreGenuine, SavesAreFresh, Refreshed
  <1>1. ASSUME NEW q \in Requests, Begin(q) PROVE SavesAreFresh'
    BY <1>1 DEF Begin, loginVars, server
  <1>2. ASSUME NEW q \in Requests, EnsureValidToken(q) PROVE SavesAreFresh'
    BY <1>2 DEF EnsureValidToken, CanLock, Load, Return, loginVars, server
  <1>3. ASSUME NEW q \in Requests, LoadFails(q) PROVE SavesAreFresh'
    BY <1>3 DEF LoadFails, CanLock, Return, loginVars, server
  <1>4. ASSUME NEW q \in Requests, ServerRefreshes(q) PROVE SavesAreFresh'
    <2>1. q \in Refreshing /\ Genuine(tok[q]) /\ mu = q
      BY <1>4 DEF ServerRefreshes
    <2>2. PICK r \in Answers(linkOf[tok[q].refresh]) :
            /\ reply' = [reply EXCEPT ![q] = r]
            /\ spent' = IF r.refresh = None THEN spent
                        ELSE spent \cup {tok[q].refresh}
      BY <1>4 DEF ServerRefreshes
    <2>3. /\ issued' = issued + 1
          /\ pc' = [pc EXCEPT ![q] = "answered"]
          /\ UNCHANGED <<file, tok, login, newTok>>
      BY <1>4 DEF ServerRefreshes, loginVars
    <2>4. r.refresh \in {issued + 1, None}
      BY DEF Answers
    <2>5. Answered' = {q}
      BY <1>4, <2>1, <2>3 DEF ServerRefreshes
    <2>6. Refreshed(tok[q], r).refresh \notin spent'
      BY <1>4, <2>1, <2>2, <2>4 DEF ServerRefreshes
    <2>7. spent' \subseteq 1..issued'
      <3>1. issued \in Nat /\ tok[q].refresh \in (1..issued) \cup {None}
        BY <2>1
      <3>2. tok[q].refresh # None /\ spent \subseteq 1..issued
        BY <1>4 DEF ServerRefreshes
      <3> QED BY <2>2, <2>3, <3>1, <3>2
    <2>8. \A x \in Answered' : Refreshed(tok'[x], reply'[x]).refresh \notin spent'
      BY <2>2, <2>3, <2>5, <2>6
    <2>9. reply'[q] = r /\ Refreshing' = Refreshing
      BY <2>1, <2>2, <2>3
    <2>10. ASSUME login = "saving", newTok.refresh # None
           PROVE  /\ newTok.refresh \notin spent'
                  /\ file # None => file.refresh # newTok.refresh
                  /\ \A x \in Refreshing : tok[x].refresh # newTok.refresh
                  /\ r.refresh # newTok.refresh
      <3>1. newTok.refresh \in 1..issued /\ issued \in Nat
        BY <2>10
      <3>2. /\ newTok.refresh \notin spent
            /\ file # None => file.refresh # newTok.refresh
            /\ \A x \in Refreshing : tok[x].refresh # newTok.refresh
        BY <2>10
      <3> HIDE DEF TypeOK, TokensAreGenuine, SavesAreFresh, Refreshing
      <3> QED BY <2>1, <2>2, <2>4, <3>1, <3>2
    <2>11. login' = "saving" /\ newTok'.refresh # None =>
            /\ newTok'.refresh \notin spent'
            /\ file' # None => file'.refresh # newTok'.refresh
            /\ \A x \in Refreshing' : tok'[x].refresh # newTok'.refresh
            /\ \A x \in Answered' : reply'[x].refresh # newTok'.refresh
      <3> HIDE DEF TypeOK, TokensAreGenuine, SavesAreFresh, Refreshing, Answered
      <3> QED BY <2>3, <2>5, <2>9, <2>10
    <2> QED BY <2>7, <2>8, <2>11
  <1>5. ASSUME NEW q \in Requests, RefreshFails(q) PROVE SavesAreFresh'
    BY <1>5 DEF RefreshFails, Return, loginVars, server
  <1>6. ASSUME NEW q \in Requests, SaveRefreshed(q) PROVE SavesAreFresh'
    BY <1>6 DEF SaveRefreshed, Return, loginVars, server
  <1>7. ASSUME NEW q \in Requests, SaveFails(q) PROVE SavesAreFresh'
    BY <1>7 DEF SaveFails, Return, loginVars, server
  <1>8. CASE StartDeviceFlow
    BY <1>8 DEF StartDeviceFlow, agent, server
  <1>9. CASE PollAuthorized
    BY <1>9 DEF PollAuthorized, agent, server
  <1>10. CASE PollAgain
    BY <1>10 DEF PollAgain, agent, server
  <1>11. CASE ExchangeCode
    BY <1>11 DEF ExchangeCode, Answers, ExtractAccountID, agent
  <1>12. CASE SaveLogin
    BY <1>12 DEF SaveLogin, agent, server
  <1>13. CASE LoginFails
    BY <1>13 DEF LoginFails, agent, server
  <1>14. CASE AgentCrash
    BY <1>14 DEF AgentCrash, loginVars, server
  <1>15. ASSUME NEW n \in Ids, Expire(n) PROVE SavesAreFresh'
    BY <1>15 DEF Expire, agent, loginVars, server
  <1>16. CASE UNCHANGED vars
    BY <1>16 DEF vars
  <1> QED
    BY <1>1, <1>2, <1>3, <1>4, <1>5, <1>6, <1>7, <1>8, <1>9,
       <1>10, <1>11, <1>12, <1>13, <1>14, <1>15, <1>16
    DEF Next, Request, LoginStep

LEMMA LinkSurvivesPreserved ==
    TypeOK /\ TypeOK' /\ TokensAreGenuine /\ SavesAreFresh /\ LinkSurvives /\ [Next]_vars => LinkSurvives'
  <1> SUFFICES ASSUME TypeOK, TypeOK', TokensAreGenuine, SavesAreFresh, LinkSurvives, [Next]_vars
               PROVE  LinkSurvives'
    OBVIOUS
  <1> USE CodexAssumption DEF CodexAssumption, TypeOK, Genuine, GenuineAmong, Answered,
          Refreshing, Ids, Links, TokensAreGenuine, SavesAreFresh, LinkSurvives, Orphans, Refreshed
  <1>1. ASSUME NEW q \in Requests, Begin(q) PROVE LinkSurvives'
    BY <1>1 DEF Begin, loginVars, server
  <1>2. ASSUME NEW q \in Requests, EnsureValidToken(q) PROVE LinkSurvives'
    BY <1>2 DEF EnsureValidToken, CanLock, Load, Return, loginVars, server
  <1>3. ASSUME NEW q \in Requests, LoadFails(q) PROVE LinkSurvives'
    BY <1>3 DEF LoadFails, CanLock, Return, loginVars, server
  <1>4. ASSUME NEW q \in Requests, ServerRefreshes(q) PROVE LinkSurvives'
    BY <1>4 DEF ServerRefreshes, Answers, ExtractAccountID, loginVars
  <1>5. ASSUME NEW q \in Requests, RefreshFails(q) PROVE LinkSurvives'
    BY <1>5 DEF RefreshFails, Return, loginVars, server
  <1>6. ASSUME NEW q \in Requests, SaveRefreshed(q) PROVE LinkSurvives'
    BY <1>6 DEF SaveRefreshed, Return, loginVars, server
  <1>7. ASSUME NEW q \in Requests, SaveFails(q) PROVE LinkSurvives'
    BY <1>7 DEF SaveFails, Return, loginVars, server
  <1>8. CASE StartDeviceFlow
    BY <1>8 DEF StartDeviceFlow, agent, server
  <1>9. CASE PollAuthorized
    BY <1>9 DEF PollAuthorized, agent, server
  <1>10. CASE PollAgain
    BY <1>10 DEF PollAgain, agent, server
  <1>11. CASE ExchangeCode
    BY <1>11 DEF ExchangeCode, Answers, ExtractAccountID, agent
  <1>12. CASE SaveLogin
    BY <1>12 DEF SaveLogin, agent, server
  <1>13. CASE LoginFails
    BY <1>13 DEF LoginFails, agent, server
  <1>14. CASE AgentCrash
    BY <1>14 DEF AgentCrash, loginVars, server
  <1>15. ASSUME NEW n \in Ids, Expire(n) PROVE LinkSurvives'
    BY <1>15 DEF Expire, agent, loginVars, server
  <1>16. CASE UNCHANGED vars
    BY <1>16 DEF vars
  <1> QED
    BY <1>1, <1>2, <1>3, <1>4, <1>5, <1>6, <1>7, <1>8, <1>9,
       <1>10, <1>11, <1>12, <1>13, <1>14, <1>15, <1>16
    DEF Next, Request, LoginStep

LEMMA CurrentPreserved ==
    TypeOK /\ TypeOK' /\ TokensAreGenuine /\ LinkIsCurrent /\ [Next]_vars => LinkIsCurrent'
  <1> SUFFICES ASSUME TypeOK, TypeOK', TokensAreGenuine, LinkIsCurrent, [Next]_vars
               PROVE  LinkIsCurrent'
    OBVIOUS
  <1> USE DEF TypeOK, Refreshing, LinkIsCurrent
  <1>1. ASSUME NEW q \in Requests, Begin(q) PROVE LinkIsCurrent'
    BY <1>1 DEF Begin, loginVars, server
  <1>2. ASSUME NEW q \in Requests, EnsureValidToken(q) PROVE LinkIsCurrent'
    <2>1. CASE Return(q, Failed)
      BY <1>2, <2>1 DEF EnsureValidToken, Return, loginVars, server
    <2>2. CASE file # None /\ Return(q, file)
      BY <1>2, <2>2 DEF EnsureValidToken, Return, loginVars, server
    <2>3. CASE /\ file # None /\ file.refresh # None
               /\ mu' = q
               /\ pc' = [pc EXCEPT ![q] = "asking"]
               /\ tok' = [tok EXCEPT ![q] = file]
               /\ UNCHANGED <<reply, got>>
      <3>1. /\ due' = [due EXCEPT ![q] = IF undone THEN 0 ELSE linked]
            /\ UNCHANGED <<file, linkOf, undone, linked, got>>
        BY <1>2, <2>3 DEF EnsureValidToken, server
      <3>2. due'[q] # 0 => linkOf[file.access] = due'[q]
        BY <2>3, <3>1
      <3>3. Refreshing' = Refreshing \cup {q}
        BY <2>3
      <3>4. \A x \in Requests : x # q => due'[x] = due[x] /\ tok'[x] = tok[x]
        BY <2>3, <3>1
      <3>5. \A x \in Refreshing' :
              due'[x] # 0 => linkOf'[tok'[x].access] = due'[x]
        BY <2>3, <3>1, <3>2, <3>3, <3>4
      <3>6. got[q] = None
        BY <1>2 DEF EnsureValidToken
      <3>7. \A x \in Requests : pc'[x] # "idle" => got[x] = None
        BY <1>2, <2>3, <3>6 DEF EnsureValidToken
      <3>8. /\ \A x \in Requests : pc'[x] # "idle" => got'[x] = None
            /\ \A x \in Requests :
                 got'[x] \notin {None, Failed} /\ due'[x] # 0 =>
                    linkOf'[got'[x].access] = due'[x]
        BY <2>3, <3>1, <3>4, <3>6, <3>7
      <3>9. file' # None => undone' \/ linkOf'[file'.access] = linked'
        BY <3>1
      <3> QED BY <3>5, <3>8, <3>9
    <2> QED BY <1>2, <2>1, <2>2, <2>3 DEF EnsureValidToken, Load
  <1>3. ASSUME NEW q \in Requests, LoadFails(q) PROVE LinkIsCurrent'
    BY <1>3 DEF LoadFails, CanLock, Return, loginVars, server
  <1>4. ASSUME NEW q \in Requests, ServerRefreshes(q) PROVE LinkIsCurrent'
    <2>1. \A t : Genuine(t) => linkOf'[t.access] = linkOf[t.access]
      BY <1>4, CodexAssumption
      DEF ServerRefreshes, CodexAssumption, Genuine, GenuineAmong, Ids
    <2> QED BY <1>4, <2>1 DEF ServerRefreshes, TokensAreGenuine, loginVars
  <1>5. ASSUME NEW q \in Requests, RefreshFails(q) PROVE LinkIsCurrent'
    BY <1>5 DEF RefreshFails, Return, loginVars, server
  <1>6. ASSUME NEW q \in Requests, SaveRefreshed(q) PROVE LinkIsCurrent'
    <2> DEFINE t == Refreshed(tok[q], reply[q])
    <2>1. linkOf[t.access] = linkOf[tok[q].access]
      BY <1>6 DEF SaveRefreshed, TokensAreGenuine, Answered, Refreshed
    <2>2. /\ pc' = [pc EXCEPT ![q] = "idle"]
          /\ file' = t
          /\ undone' = (undone \/ linkOf[t.access] # linked)
          /\ got' = [got EXCEPT ![q] = t]
          /\ tok' = [tok EXCEPT ![q] = None]
          /\ UNCHANGED <<linkOf, linked, due>>
      BY <1>6 DEF SaveRefreshed, Return, server
    <2>3. due[q] # 0 => linkOf[tok[q].access] = due[q]
      BY <1>6 DEF SaveRefreshed
    <2> HIDE DEF t
    <2>4. \A x \in Requests :
            got'[x] \notin {None, Failed} /\ due'[x] # 0 =>
               linkOf'[got'[x].access] = due'[x]
      BY <2>1, <2>2, <2>3
    <2>5. undone' \/ linkOf'[file'.access] = linked'
      BY <2>2
    <2> QED BY <2>2, <2>4, <2>5
  <1>7. ASSUME NEW q \in Requests, SaveFails(q) PROVE LinkIsCurrent'
    BY <1>7 DEF SaveFails, Return, loginVars, server
  <1>8. CASE StartDeviceFlow
    BY <1>8 DEF StartDeviceFlow, agent, server
  <1>9. CASE PollAuthorized
    BY <1>9 DEF PollAuthorized, agent, server
  <1>10. CASE PollAgain
    BY <1>10 DEF PollAgain, agent, server
  <1>11. CASE ExchangeCode
    <2>1. \A t : Genuine(t) => linkOf'[t.access] = linkOf[t.access]
      BY <1>11, CodexAssumption
      DEF ExchangeCode, CodexAssumption, Genuine, GenuineAmong, Ids
    <2> QED BY <1>11, <2>1 DEF ExchangeCode, TokensAreGenuine, agent
  <1>12. CASE SaveLogin
    BY <1>12 DEF SaveLogin, agent, server
  <1>13. CASE LoginFails
    BY <1>13 DEF LoginFails, agent, server
  <1>14. CASE AgentCrash
    BY <1>14 DEF AgentCrash, loginVars, server
  <1>15. ASSUME NEW n \in Ids, Expire(n) PROVE LinkIsCurrent'
    BY <1>15 DEF Expire, agent, loginVars, server
  <1>16. CASE UNCHANGED vars
    BY <1>16 DEF vars
  <1> QED
    BY <1>1, <1>2, <1>3, <1>4, <1>5, <1>6, <1>7, <1>8, <1>9,
       <1>10, <1>11, <1>12, <1>13, <1>14, <1>15, <1>16
    DEF Next, Request, LoginStep

-----------------------------------------------------------------------------
(* Theorems                                                                *)

LEMMA TokenInvHolds == Spec => []TokenInv
  <1>1. Init => TokenInv
    <2> SUFFICES ASSUME Init PROVE TokenInv
      OBVIOUS
    <2>1. TypeOK
      BY TypesInitially
    <2>2. TokensAreGenuine
      BY DEF Init, TokensAreGenuine, Refreshing, Answered
    <2>3. SavesAreFresh
      BY DEF Init, SavesAreFresh, Refreshing, Answered
    <2>4. LinkSurvives
      BY DEF Init, LinkSurvives
    <2>5. LinkIsCurrent
      BY DEF Init, LinkIsCurrent, Refreshing
    <2> QED BY <2>1, <2>2, <2>3, <2>4, <2>5 DEF TokenInv
  <1>2. TokenInv /\ [Next]_vars => TokenInv'
    BY TypesPreserved, GenuinePreserved, FreshPreserved, LinkSurvivesPreserved,
       CurrentPreserved DEF TokenInv
  <1> QED BY <1>1, <1>2, PTL DEF Spec

\* Every variable keeps its type, and at most one request refreshes at a
\* time (codex.go:51).
THEOREM TokenTypes == Spec => []TypeOK
  <1>1. TokenInv => TypeOK
    BY DEF TokenInv
  <1> QED BY <1>1, TokenInvHolds, PTL

\* A spent refresh token stays in the file only if its successor was lost
\* with an answer, a save or the process, or is still on its way: no two
\* requests, and no login beside them, use up each other's token
\* (codex.go:51-87, oauth.go:293).
THEOREM LinksSurvive == Spec => []LinkSurvives
  <1>1. TokenInv => LinkSurvives
    BY DEF TokenInv
  <1> QED BY <1>1, TokenInvHolds, PTL

\* A request that loads the token after a login answers with the link and
\* the account of that login, unless a refresh that was already on its way
\* has written the older link back (oauth.go:293, codex.go:83).
THEOREM LoginsTakeEffect == Spec => []LoginTakesEffect
  <1>1. TokenInv => LoginTakesEffect
    BY DEF TokenInv, TokensAreGenuine, LinkIsCurrent, Genuine, GenuineAmong,
           LoginTakesEffect
  <1> QED BY <1>1, TokenInvHolds, PTL

=============================================================================
