----------------------------- MODULE GoogleGrant ---------------------------
(***************************************************************************)
(* The one Google grant behind Drive and Sheets: the refresh token stored  *)
(* in the database (src/src/oauth-token), the shared client built from it  *)
(* (src/src/google-auth), and the clients that Drive and Sheets keep       *)
(* (src/src/google-drive, src/src/google-sheets).  Each await is a step;   *)
(* what the code starts without awaiting is a pending write.               *)
(***************************************************************************)
EXTENDS Integers, FiniteSets

CONSTANTS
    GrantCalls,    \* the calls in flight at once, pairs <<user, n>>
    GrantFlows,    \* the consents in flight at once
    MaxTokens,     \* bound on the refresh tokens Google issues
    MaxGrantFaults \* bound on revocations, outages, failed writes and restarts

ASSUME GrantBounds ==
    /\ GrantCalls \subseteq {"drive", "sheets", "health"} \X Nat /\ IsFiniteSet(GrantCalls)
    /\ MaxTokens \in Nat \ {0} /\ MaxGrantFaults \in Nat

MaxAttempts == 3
Users == {"drive", "sheets", "health"}
UserOf(k) == k[1]
Tokens == 1..MaxTokens

VARIABLES
    issued,      \* the refresh tokens Google has issued are 1..issued
    valid,       \* those it accepts
    stored,      \* the row of oauth_tokens: [token, status]; token 0: no row
    credential,  \* credential[c]: the refresh token of client c
    cached,      \* the client shared, and the token it was built for; client 0: none
    held,        \* held[u]: the client that u keeps, 0 for none
    gcall,       \* gcall[k]: a call [at, token, client, tries]
    pending,     \* what was started without being awaited
    consent,     \* consent[f]: a consent flow [at, token]
    grantFaults, \* the faults so far
    lost         \* history: a rotated token was not saved, or memory was lost

grantVars == <<issued, valid, stored, credential, cached, held, gcall, pending, consent,
               grantFaults, lost>>

\* Enough for a client each: the cache, the users, the calls and the tokens being saved.
Clients == 1..(1 + Cardinality(Users) + Cardinality(GrantCalls) + MaxTokens)
IdleCall == [at |-> "idle", token |-> 0, client |-> 0, tries |-> 0]
NoClient == [client |-> 0, key |-> 0]
Effects ==
    {[do |-> "save", client |-> c, token |-> t] : c \in Clients, t \in Tokens}
    \cup {[do |-> "repoint", client |-> c, token |-> t] : c \in Clients, t \in Tokens}
    \cup {[do |-> d, client |-> 0, token |-> 0] : d \in {"mark", "reset", "touch"}}
Effect(d) == [do |-> d, client |-> 0, token |-> 0]

GrantTypeOK ==
    /\ issued \in 0..MaxTokens
    /\ valid \subseteq 1..issued
    /\ stored.token \in 0..issued
    /\ stored.status \in {"NONE", "CONNECTED", "REAUTH_REQUIRED"}
    /\ stored.token = 0 <=> stored.status = "NONE"
    /\ credential \in [Clients -> 0..MaxTokens]
    /\ cached.client \in {0} \cup Clients
    /\ \A u \in Users : held[u] \in {0} \cup Clients
    /\ \A k \in GrantCalls : gcall[k].at \in {"idle", "read", "build", "send"}
                             /\ gcall[k].tries \in 0..(MaxAttempts - 1)
    /\ pending \subseteq Effects
    /\ \A f \in GrantFlows : consent[f].at \in {"idle", "url", "save", "reset"}
    /\ grantFaults \in 0..MaxGrantFaults

GrantInit ==
    /\ issued = 0
    /\ valid = {}
    /\ stored = [token |-> 0, status |-> "NONE"]
    /\ credential = [c \in Clients |-> 0]
    /\ cached = NoClient
    /\ held = [u \in Users |-> 0]
    /\ gcall = [k \in GrantCalls |-> IdleCall]
    /\ pending = {}
    /\ consent = [f \in GrantFlows |-> [at |-> "idle", token |-> 0]]
    /\ grantFaults = 0
    /\ lost = FALSE

GrantFault == grantFaults < MaxGrantFaults /\ grantFaults' = grantFaults + 1

----------------------------------------------------------------------------
(* A call: the client, then Google.                                        *)

\* ensureClient of Drive and of Sheets: the client kept, or the shared one;
\* verifyConnectivity always takes the shared one.
StartCall(k) ==
    /\ gcall[k].at = "idle"
    /\ gcall' = [gcall EXCEPT ![k] =
          IF held[UserOf(k)] = 0 THEN [IdleCall EXCEPT !.at = "read"]
          ELSE [IdleCall EXCEPT !.at = "send", !.client = held[UserOf(k)]]]
    /\ UNCHANGED <<issued, valid, stored, credential, cached, held, pending, consent,
                   grantFaults, lost>>

\* getAuthenticatedClient: the stored token; without one the call fails.
ReadToken(k) ==
    /\ gcall[k].at = "read"
    /\ gcall' = [gcall EXCEPT ![k] = IF stored.token = 0 THEN IdleCall
                                     ELSE [@ EXCEPT !.at = "build", !.token = stored.token]]
    /\ UNCHANGED <<issued, valid, stored, credential, cached, held, pending, consent,
                   grantFaults, lost>>

InUse == {cached.client} \cup {held[u] : u \in Users}
         \cup {gcall[k].client : k \in GrantCalls} \cup {e.client : e \in pending}

\* The shared client when it was built for that token, else a new one.
BuildClient(k) ==
    /\ gcall[k].at = "build"
    /\ LET token == gcall[k].token
           reuse == cached.client # 0 /\ cached.key = token
           client == IF reuse THEN cached.client
                     ELSE CHOOSE c \in Clients : c \notin InUse
       IN
       /\ credential' = [c \in Clients |-> IF c = client /\ ~reuse THEN token
                                            ELSE IF c \in InUse THEN credential[c] ELSE 0]
       /\ cached' = IF reuse THEN cached ELSE [client |-> client, key |-> token]
       /\ held' = IF UserOf(k) = "health" THEN held
                  ELSE [held EXCEPT ![UserOf(k)] = client]
       /\ gcall' = [gcall EXCEPT ![k].at = "send", ![k].client = client]
    /\ UNCHANGED <<issued, valid, stored, pending, consent, grantFaults, lost>>

\* Google takes the token: the handler of the 'tokens' event writes the heartbeat.
Accepted(k) ==
    /\ gcall[k].at = "send"
    /\ credential[gcall[k].client] \in valid
    /\ pending' = pending \cup {Effect("touch")}
    /\ gcall' = [gcall EXCEPT ![k] = IdleCall]
    /\ UNCHANGED <<issued, valid, stored, credential, cached, held, consent, grantFaults, lost>>

\* Google takes the token and rotates it: the client takes the new one at once, its
\* save is started.  One rotation of a client at a time.
Rotated(k) ==
    LET client == gcall[k].client IN
    /\ gcall[k].at = "send"
    /\ credential[client] \in valid
    /\ issued < MaxTokens
    /\ \A e \in pending : e.client # client
    /\ issued' = issued + 1
    /\ \E revoked \in BOOLEAN :
          valid' = (IF revoked THEN valid \ {credential[client]} ELSE valid) \cup {issued + 1}
    /\ credential' = [credential EXCEPT ![client] = issued + 1]
    /\ pending' = pending \cup {Effect("touch"),
                     [do |-> "save", client |-> client, token |-> issued + 1]}
    /\ gcall' = [gcall EXCEPT ![k] = IdleCall]
    /\ UNCHANGED <<stored, cached, held, consent, grantFaults, lost>>

\* Mutant of Dropped: Drive keeps its client as Sheets does.
DroppedNever(user) == held

\* callWithRetry of Drive drops the client of Drive; that of Sheets drops nothing.
Dropped(user) == IF user = "drive" THEN [held EXCEPT !["drive"] = 0] ELSE held

\* Drive and the health check mark the connection (markReauthFromError).
Marks(user) == user # "sheets"

\* invalid_grant: never retried.
Rejected(k) ==
    /\ gcall[k].at = "send"
    /\ credential[gcall[k].client] \notin valid
    /\ held' = Dropped(UserOf(k))
    /\ pending' = IF Marks(UserOf(k)) THEN pending \cup {Effect("mark")} ELSE pending
    /\ gcall' = [gcall EXCEPT ![k] = IdleCall]
    /\ UNCHANGED <<issued, valid, stored, credential, cached, consent, grantFaults, lost>>

\* 429, 5xx or the network: tried again, three times in all.
Outage(k) ==
    /\ gcall[k].at = "send"
    /\ GrantFault
    /\ LET again == gcall[k].tries + 1 < MaxAttempts /\ UserOf(k) # "health" IN
       gcall' = [gcall EXCEPT ![k] = IF again THEN [gcall[k] EXCEPT !.tries = @ + 1]
                                     ELSE IdleCall]
    /\ UNCHANGED <<issued, valid, stored, credential, cached, held, pending, consent, lost>>

----------------------------------------------------------------------------
(* What is not awaited.                                                    *)

\* Mutant of AfterSave: the shared client keeps the key it was built with.
AfterSaveNothing(e) == {}
AfterSave(e) == {[e EXCEPT !.do = "repoint"]}

\* saveRefreshToken, touchRefreshed (no upsert), markReauthRequired (no upsert), then
\* the continuation: the cache re-pointed, or dropped.
Settle(e) ==
    /\ e \in pending
    /\ CASE e.do = "save" ->
              /\ stored' = [token |-> e.token, status |-> "CONNECTED"]
              /\ pending' = (pending \ {e}) \cup AfterSave(e)
              /\ UNCHANGED cached
         [] e.do = "repoint" ->
              /\ cached' = [client |-> e.client, key |-> e.token]
              /\ pending' = pending \ {e}
              /\ UNCHANGED stored
         [] e.do = "touch" ->
              /\ stored' = IF stored.token = 0 THEN stored
                           ELSE [stored EXCEPT !.status = "CONNECTED"]
              /\ pending' = pending \ {e}
              /\ UNCHANGED cached
         [] e.do = "mark" ->
              /\ stored' = IF stored.token = 0 THEN stored
                           ELSE [stored EXCEPT !.status = "REAUTH_REQUIRED"]
              /\ pending' = (pending \ {e}) \cup {Effect("reset")}
              /\ UNCHANGED cached
         [] e.do = "reset" ->
              /\ cached' = NoClient
              /\ pending' = pending \ {e}
              /\ UNCHANGED stored
    /\ UNCHANGED <<issued, valid, credential, held, gcall, consent, grantFaults, lost>>

\* A write of the database fails: it is logged, and the cache dropped after a mark.
WriteLost(e) ==
    /\ e \in pending
    /\ e.do \in {"save", "touch", "mark"}
    /\ GrantFault
    /\ pending' = (pending \ {e}) \cup (IF e.do = "mark" THEN {Effect("reset")} ELSE {})
    /\ lost' = (lost \/ e.do = "save")
    /\ UNCHANGED <<issued, valid, stored, credential, cached, held, gcall, consent>>

----------------------------------------------------------------------------
(* The consent, Google, and the process.                                   *)

\* generateAuthUrl mints a state; it is consumed by the callback, or expires.
MintState(f) ==
    /\ consent[f].at = "idle"
    /\ issued < MaxTokens
    /\ consent' = [consent EXCEPT ![f].at = "url"]
    /\ UNCHANGED <<issued, valid, stored, credential, cached, held, gcall, pending,
                   grantFaults, lost>>

ExpireState(f) ==
    /\ consent[f].at = "url"
    /\ consent' = [consent EXCEPT ![f].at = "idle"]
    /\ UNCHANGED <<issued, valid, stored, credential, cached, held, gcall, pending,
                   grantFaults, lost>>

\* oauthCallback: the state consumed and the code exchanged; Google may leave the
\* refresh token out, and nothing is then saved.
Callback(f) ==
    /\ consent[f].at = "url"
    /\ IF issued < MaxTokens
       THEN /\ issued' = issued + 1
            /\ valid' = valid \cup {issued + 1}
            /\ consent' = [consent EXCEPT ![f] = [at |-> "save", token |-> issued + 1]]
       ELSE /\ consent' = [consent EXCEPT ![f].at = "idle"]
            /\ UNCHANGED <<issued, valid>>
    /\ UNCHANGED <<stored, credential, cached, held, gcall, pending, grantFaults, lost>>

\* handleCallbackTokens: the token saved, then the shared client dropped.
SaveConsent(f) ==
    /\ consent[f].at = "save"
    /\ stored' = [token |-> consent[f].token, status |-> "CONNECTED"]
    /\ consent' = [consent EXCEPT ![f].at = "reset"]
    /\ UNCHANGED <<issued, valid, credential, cached, held, gcall, pending, grantFaults, lost>>

ResetClient(f) ==
    /\ consent[f].at = "reset"
    /\ cached' = NoClient
    /\ consent' = [consent EXCEPT ![f] = [at |-> "idle", token |-> 0]]
    /\ UNCHANGED <<issued, valid, stored, credential, held, gcall, pending, grantFaults, lost>>

\* Google expires or revokes a refresh token.
Revoke(t) ==
    /\ t \in valid
    /\ GrantFault
    /\ valid' = valid \ {t}
    /\ UNCHANGED <<issued, stored, credential, cached, held, gcall, pending, consent, lost>>

RestartServer ==
    /\ GrantFault
    /\ cached' = NoClient
    /\ held' = [u \in Users |-> 0]
    /\ gcall' = [k \in GrantCalls |-> IdleCall]
    /\ pending' = {}
    /\ credential' = [c \in Clients |-> 0]
    /\ consent' = [f \in GrantFlows |-> [at |-> "idle", token |-> 0]]
    /\ lost' = TRUE
    /\ UNCHANGED <<issued, valid, stored>>

CallStep(k) == ReadToken(k) \/ BuildClient(k) \/ Accepted(k) \/ Rejected(k)
ConsentStep(f) == SaveConsent(f) \/ ResetClient(f)

GrantNext ==
    \/ \E k \in GrantCalls : StartCall(k) \/ CallStep(k) \/ Rotated(k) \/ Outage(k)
    \/ \E e \in pending : Settle(e) \/ WriteLost(e)
    \/ \E f \in GrantFlows : MintState(f) \/ ExpireState(f) \/ Callback(f) \/ ConsentStep(f)
    \/ \E t \in valid : Revoke(t)
    \/ RestartServer

\* Calls keep coming (the nightly backup and sheet synchronisation), and a step of the
\* process is not put off for ever; nothing is assumed of Google or of the operator.
GrantFairness ==
    /\ \A k \in GrantCalls : WF_grantVars(StartCall(k)) /\ WF_grantVars(CallStep(k))
    /\ \A e \in Effects : WF_grantVars(Settle(e))
    /\ \A f \in GrantFlows : WF_grantVars(ConsentStep(f))

GrantSpec == GrantInit /\ [][GrantNext]_grantVars /\ GrantFairness

----------------------------------------------------------------------------
(* What the grant promises.                                                *)

\* When nothing is under way and no rotated token was lost, the shared client is the
\* one its key says: the next call reuses it with the token that is stored for it.
SharedClientKeyed ==
    pending = {} /\ ~lost /\ cached.client # 0 => credential[cached.client] = cached.key

StoredAccepted == stored.token \in valid
Works(user) == held[user] # 0 /\ credential[held[user]] \in valid

\* Once the stored token is one that Google accepts, Drive ends up with a client that
\* works, and the row ends up CONNECTED: no late mark of an older rejection stays.
DriveHeals == <>[]StoredAccepted => <>[](Works("drive") /\ stored.status = "CONNECTED")

\* google-auth.service.ts:32-33: authorizing again after an invalid_grant takes effect
\* without a restart, for Sheets as well.
SheetsHeals == <>[]StoredAccepted => <>[]Works("sheets")

\* The shared client: its types, and a key that tells which token it holds.
GrantInv == GrantTypeOK /\ SharedClientKeyed
=============================================================================
