----------------------------- MODULE VaultInit ------------------------------
(***************************************************************************)
(* The Vault bootstrap and seal monitor (docker/vault_init.py), the Vault  *)
(* server it keeps open, the files it leaves for the pipelines and a       *)
(* process that uses them (ingestion/pyfiles/vault_client.py).  Vault and  *)
(* the daemon's container restart by themselves; Vault comes back sealed.  *)
(***************************************************************************)
EXTENDS Naturals, Sequences

CONSTANTS MaxTokens,  \* bound on pipeline tokens
          MaxTrouble  \* bound on restarts, seals, kills, errors and expiries

\* Enough tokens for one more than the faults that lead to a new one.
ASSUME BoundsAssumption ==
  MaxTokens \in Nat /\ MaxTrouble \in Nat /\ MaxTokens > MaxTrouble

VARIABLES
  vault,      \* the server: up, initialised, sealed
  seeded,     \* seeds (below) whose effect is in Vault or in the secrets volume
  oracle,     \* the Oracle credentials in Vault: "none", "blank" or "set"
  tokens,     \* pipeline tokens that Vault accepts
  initFile,   \* INIT_FILE: "none", "partial" or "keys"
  tokenFile,  \* TOKEN_FILE: 0 when missing or empty, or a token
  settings,   \* of the daemon's environment: those that are set
  daemon,     \* vault_init.py
  client,     \* a process with a vault_client
  made,       \* number of tokens created
  trouble,    \* number of faults so far
  lost,       \* history: a save of the keys was cut short
  spoilt      \* history: the token expired, or a write of it by the monitor failed,
              \* and no other token has been written since

vars == <<vault, seeded, oracle, tokens, initFile, tokenFile, settings, daemon,
          client, made, trouble, lost, spoilt>>

\* bootstrap after the unseal, in its order.  The password's ciphertext goes
\* to a file, which is emptied when it is opened.
Seeds == <<"transit", "secret", "pii-encrypt", "supabase-pwd", "salt",
           "openPassword", "password", "oracle", "policy">>

SeedSet == {Seeds[i] : i \in DOMAIN Seeds}

Open == vault.up /\ vault.inited /\ ~vault.sealed
Valid == Open /\ tokenFile \in tokens
At(pc) == daemon.pc = pc

\* The answer of sys/health.
Status == IF ~vault.inited THEN 501 ELSE IF vault.sealed THEN 503 ELSE 200

Down == [pc |-> "down", status |-> 0, step |-> 1, token |-> 0]

Init ==
  /\ vault = [up |-> FALSE, inited |-> FALSE, sealed |-> TRUE]
  /\ seeded = {} /\ oracle = "none" /\ tokens = {}
  /\ initFile = "none" /\ tokenFile = 0
  /\ settings \in SUBSET {"password", "oracle"}
  /\ daemon = Down
  /\ client = [pc |-> "idle", token |-> 0, calm |-> FALSE, env |-> FALSE]
  /\ made = 0 /\ trouble = 0 /\ lost = FALSE /\ spoilt = FALSE

-----------------------------------------------------------------------------
\* Bootstrap.  Every step but the last has its next one.

To(pc) == daemon' = [daemon EXCEPT !.pc = pc]

\* wait_for_vault, then vault_status.
Begin ==
  /\ At("down") /\ vault.up
  /\ daemon' = [Down EXCEPT !.pc = IF Status = 501 THEN "init" ELSE "load", !.status = Status]
  /\ UNCHANGED <<vault, seeded, oracle, tokens, initFile, tokenFile, made, lost, spoilt>>

\* Fault: the keys are used and not saved.
AfterInitUnsaved == "unseal"

AfterInit == "save"

Initialise ==
  /\ At("init") /\ vault.up /\ ~vault.inited
  /\ vault' = [vault EXCEPT !.inited = TRUE]
  /\ daemon' = [daemon EXCEPT !.pc = AfterInit, !.status = 503]
  /\ UNCHANGED <<seeded, oracle, tokens, initFile, tokenFile, made, lost, spoilt>>

OpenInitFile ==
  /\ At("save")
  /\ initFile' = "partial" /\ To("saving")
  /\ UNCHANGED <<vault, seeded, oracle, tokens, tokenFile, made, lost, spoilt>>

SaveKeys ==
  /\ At("saving")
  /\ initFile' = "keys" /\ To("load")
  /\ UNCHANGED <<vault, seeded, oracle, tokens, tokenFile, made, lost, spoilt>>

\* Without a complete file the daemon exits, see Exit.
LoadKeys ==
  /\ At("load") /\ initFile = "keys"
  /\ To(IF daemon.status = 503 THEN "unseal" ELSE "seed")
  /\ UNCHANGED <<vault, seeded, oracle, tokens, initFile, tokenFile, made, lost, spoilt>>

\* Fault: the seeds are left out once the engines are there.
AfterUnsealKnown == IF "transit" \in seeded THEN "token" ELSE "seed"

AfterUnseal == "seed"

Unseal ==
  /\ At("unseal") /\ vault.up /\ vault.inited
  /\ vault' = [vault EXCEPT !.sealed = FALSE]
  /\ To(AfterUnseal)
  /\ UNCHANGED <<seeded, oracle, tokens, initFile, tokenFile, made, lost, spoilt>>

\* Fault: blank Oracle settings are written too.
SkipsPassword == IF "password" \in settings THEN {} ELSE {"openPassword", "password"}

\* The password and the Oracle credentials are written only if they are set.
Skips ==
  (IF "password" \in settings THEN {} ELSE {"openPassword", "password"})
  \cup ({"oracle"} \ settings)

\* Engines, keys and the policy are put only where they are missing or as
\* they were; the salt is written in any case.
Seed ==
  LET s == Seeds[daemon.step] IN
  /\ At("seed") /\ Open
  /\ seeded' = IF s \in Skips THEN seeded
               ELSE IF s = "openPassword" THEN seeded \ {"password"}
               ELSE seeded \cup {s}
  /\ oracle' = IF s # "oracle" \/ s \in Skips THEN oracle
               ELSE IF "oracle" \in settings THEN "set" ELSE "blank"
  /\ daemon' = IF daemon.step = Len(Seeds)
               THEN [daemon EXCEPT !.pc = "token"]
               ELSE [daemon EXCEPT !.step = @ + 1]
  /\ UNCHANGED <<vault, tokens, initFile, tokenFile, made, lost, spoilt>>

-----------------------------------------------------------------------------
\* _write_pipeline_token, of the bootstrap and of the monitor

CreateToken ==
  /\ At("token") /\ Open /\ made < MaxTokens
  /\ made' = made + 1
  /\ tokens' = tokens \cup {made'}
  /\ daemon' = [daemon EXCEPT !.pc = "openToken", !.token = made']
  /\ UNCHANGED <<vault, seeded, oracle, initFile, tokenFile, lost, spoilt>>

OpenTokenFile ==
  /\ At("openToken")
  /\ tokenFile' = 0 /\ To("writeToken")
  /\ UNCHANGED <<vault, seeded, oracle, tokens, initFile, made, lost, spoilt>>

WriteToken ==
  /\ At("writeToken")
  /\ tokenFile' = daemon.token
  /\ spoilt' = (tokenFile' \notin tokens)
  /\ daemon' = [daemon EXCEPT !.pc = "monitor", !.step = 0]
  /\ UNCHANGED <<vault, seeded, oracle, tokens, initFile, made, lost>>

\* monitor, every 30 seconds

\* Fault: only an uninitialised Vault is noticed.
SeesSealNot == Status = 501

SeesSeal == Status = 503

Notice ==
  /\ At("monitor") /\ vault.up /\ SeesSeal
  /\ To("reunseal")
  /\ UNCHANGED <<vault, seeded, oracle, tokens, initFile, tokenFile, made, lost, spoilt>>

Reunseal ==
  /\ At("reunseal") /\ vault.up
  /\ vault' = [vault EXCEPT !.sealed = FALSE]
  /\ To("token")
  /\ UNCHANGED <<seeded, oracle, tokens, initFile, tokenFile, made, lost, spoilt>>

-----------------------------------------------------------------------------
\* Errors

\* What a step needs of Vault and of INIT_FILE.
Possible ==
  CASE At("init") -> vault.up /\ ~vault.inited
    [] At("load") -> initFile = "keys"
    [] At("unseal") \/ At("reunseal") -> vault.up /\ vault.inited
    [] At("seed") \/ At("token") -> Open
    [] OTHER -> TRUE

\* step is 0 once the bootstrap is complete.
Monitoring == daemon.step = 0

\* A step failed: the bootstrap exits, the monitor tries again later, when
\* it sees the Vault sealed.  A write that is cut short leaves the file open.
Give ==
  /\ IF Monitoring THEN To("monitor") ELSE daemon' = Down
  /\ lost' = (lost \/ At("save") \/ At("saving"))
  /\ spoilt' = (spoilt \/ (Monitoring /\ At("writeToken")))
  /\ UNCHANGED <<vault, seeded, oracle, tokens, initFile, tokenFile, made>>

Refused == ~At("down") /\ ~Possible /\ Give

Untroubled == trouble < MaxTrouble /\ trouble' = trouble + 1

\* Vault is initialised and its answer, with the keys, does not arrive.
LoseKeys ==
  /\ Untroubled /\ At("init") /\ vault.up /\ ~vault.inited
  /\ vault' = [vault EXCEPT !.inited = TRUE]
  /\ daemon' = Down /\ lost' = TRUE
  /\ UNCHANGED <<seeded, oracle, tokens, initFile, tokenFile, made, spoilt>>

\* A request times out, a disk is full.
Error == Untroubled /\ ~At("down") /\ ~At("monitor") /\ Give

\* The container dies; when it is created anew its settings may be others.
Kill ==
  /\ Untroubled /\ ~At("down")
  /\ daemon' = Down
  /\ settings' \in SUBSET {"password", "oracle"}
  /\ lost' = (lost \/ At("save") \/ At("saving"))
  /\ UNCHANGED <<vault, seeded, oracle, tokens, initFile, tokenFile, made, spoilt>>

-----------------------------------------------------------------------------
\* The Vault server (external)

VaultUp ==
  /\ ~vault.up
  /\ vault' = [vault EXCEPT !.up = TRUE]
  /\ UNCHANGED <<seeded, oracle, tokens, initFile, tokenFile, daemon, made, lost, spoilt>>

VaultDown ==
  /\ Untroubled /\ vault.up
  /\ vault' = [vault EXCEPT !.up = FALSE, !.sealed = TRUE]
  /\ UNCHANGED <<seeded, oracle, tokens, initFile, tokenFile, daemon, made, lost, spoilt>>

\* An operator seals the Vault.
Sealing ==
  /\ Untroubled /\ Open
  /\ vault' = [vault EXCEPT !.sealed = TRUE]
  /\ UNCHANGED <<seeded, oracle, tokens, initFile, tokenFile, daemon, made, lost, spoilt>>

\* A token that nobody renews for 768 hours: not one just renewed.
Expire ==
  /\ Untroubled
  /\ \E t \in tokens :
       /\ client.pc = "renewed" => client.token # t
       /\ tokens' = tokens \ {t}
       /\ spoilt' = (spoilt \/ t = tokenFile)
  /\ UNCHANGED <<vault, seeded, oracle, initFile, tokenFile, daemon, made, lost>>

-----------------------------------------------------------------------------
\* get_vault_client and the read that follows.  calm (history): since the
\* call began, Vault has been open, the token in the file valid, the token in
\* the client's hand has not expired and no request of its last step has failed.

Accepted == Open /\ client.token \in tokens

\* The environment's VAULT_TOKEN, if set, is taken before the file.
Call ==
  /\ client.pc = "idle"
  /\ \E e \in BOOLEAN :
       client' = [client EXCEPT !.pc = IF client.token = 0 THEN "read" ELSE "cached",
                                !.calm = Valid /\ ~e, !.env = e]

\* A cached client's token is renewed; one that is not accepted is replaced.
UseCached ==
  /\ client.pc = "cached"
  /\ client' = [client EXCEPT !.pc = IF Accepted THEN "renewed" ELSE "read"]

\* Fault: the new client gets the token of the old one.
TokenReadOnce == IF client.token = 0 THEN tokenFile ELSE client.token

TokenRead == tokenFile

\* _client is replaced before it is known to be accepted.
ReadToken ==
  /\ client.pc = "read"
  /\ client' = [client EXCEPT !.token = IF client.env THEN MaxTokens + 1 ELSE TokenRead,
                              !.pc = "fresh"]

Authenticate ==
  /\ client.pc = "fresh"
  /\ client' = [client EXCEPT !.pc = IF Accepted THEN "authenticated" ELSE "failed"]

\* get_kv_secret, get_transit_encryption_key and get_encrypt_value read what
\* the bootstrap has put there.
ReadSecret ==
  /\ client.pc \in {"authenticated", "renewed"}
  /\ client' = [client EXCEPT !.pc =
                  IF Accepted /\ {"secret", "salt", "transit",
                       "pii-encrypt", "supabase-pwd", "policy"} \subseteq seeded
                  THEN "served" ELSE "failed"]

Return ==
  /\ client.pc \in {"served", "failed"}
  /\ client' = [client EXCEPT !.pc = "idle", !.calm = FALSE]

\* A request of the client times out: an error of the look at a cached client
\* leads to a new one, one of the renewal is swallowed.
ClientError ==
  /\ Untroubled
  /\ \/ client.pc = "cached" /\ client' = [client EXCEPT !.pc = "read"]
     \/ client.pc = "cached" /\ Accepted /\ client' = [client EXCEPT !.pc = "authenticated"]
     \/ /\ client.pc \in {"fresh", "authenticated", "renewed"}
        /\ client' = [client EXCEPT !.pc = "failed", !.calm = FALSE]

ClientStep == Call \/ UseCached \/ ReadToken \/ Authenticate \/ ReadSecret \/ Return

-----------------------------------------------------------------------------
Bootstrap ==
  \/ Begin \/ Initialise \/ OpenInitFile \/ SaveKeys \/ LoadKeys \/ Unseal \/ Seed
  \/ CreateToken \/ OpenTokenFile \/ WriteToken

DaemonStep == Bootstrap \/ Notice \/ Reunseal \/ Refused

Trouble == LoseKeys \/ Error \/ VaultDown \/ Sealing \/ Expire

\* A call stays calm while Vault and the tokens it needs are as they should be.
StaysCalm ==
  /\ Valid'
  /\ client.pc \in {"fresh", "authenticated"} /\ client.token \in tokens =>
       client.token \in tokens'

OtherStep ==
  /\ \/ (DaemonStep \/ VaultUp) /\ UNCHANGED <<trouble, settings>>
     \/ Trouble /\ UNCHANGED settings
     \/ Kill
  /\ client' = [client EXCEPT !.calm = @ /\ StaysCalm]

Next ==
  \/ OtherStep
  \/ /\ \/ ClientStep /\ UNCHANGED trouble
        \/ ClientError
     /\ UNCHANGED <<vault, seeded, oracle, tokens, initFile, tokenFile, settings,
                    daemon, made, lost, spoilt>>

\* Docker restarts both containers ("unless-stopped"); the daemon goes on.
Fairness ==
  WF_vars((DaemonStep \/ VaultUp) /\ UNCHANGED <<trouble, settings>>
          /\ client' = [client EXCEPT !.calm = @ /\ StaysCalm])

Spec == Init /\ [][Next]_vars

FairSpec == Spec /\ Fairness

-----------------------------------------------------------------------------
\* Every variable keeps its range; a token file holds a token that was made,
\* the daemon unseals and seeds only with the saved keys in hand.
TypeOK ==
  /\ vault \in [up: BOOLEAN, inited: BOOLEAN, sealed: BOOLEAN]
  /\ seeded \subseteq SeedSet /\ oracle \in {"none", "blank", "set"}
  /\ made \in 0..MaxTokens /\ tokens \subseteq 1..made /\ tokenFile \in 0..made
  /\ initFile \in {"none", "partial", "keys"}
  /\ settings \subseteq {"password", "oracle"}
  /\ daemon \in [pc: {"down", "init", "save", "saving", "load", "unseal", "seed", "token",
                      "openToken", "writeToken", "monitor", "reunseal"},
                 status: {0, 200, 501, 503}, step: 0..Len(Seeds), token: 0..made]
  /\ client \in [pc: {"idle", "cached", "read", "fresh", "authenticated", "renewed",
                      "served", "failed"},
                 token: 0..MaxTokens + 1, calm: BOOLEAN, env: BOOLEAN]
  /\ daemon.pc \notin {"down", "init", "save", "saving", "load"} => initFile = "keys"
  /\ trouble \in 0..MaxTrouble /\ lost \in BOOLEAN /\ spoilt \in BOOLEAN

\* Once Vault is initialised its keys are on the disk, or about to be: only
\* a daemon that is stopped, or whose disk or network fails, between the
\* initialisation and the end of the write leaves a Vault nobody can open.
KeysAreKept == vault.inited => initFile = "keys" \/ At("save") \/ At("saving") \/ lost

\* Whoever holds a pipeline token finds the engines, the keys, the salt and
\* the policy it is for, after any crash and restart of the bootstrap.
TokenOpensDoors == tokens # {} => SeedSet \ {"openPassword", "password", "oracle"} \subseteq seeded

\* A call that fails has met a closed Vault, a token file that was missing,
\* empty or expired, a token of the environment, an error of its last request
\* or the expiry of the token in its hand, which it could not renew: neither
\* an old token in the cached client nor a new one in the file makes it fail,
\* and an error while it looks at the cached client does not either.
FailuresAreDue == client.pc = "failed" => ~client.calm

\* "never seed or overwrite Oracle secrets ..., including on restarts with
\* blank settings": a daemon without the Oracle settings neither puts anything
\* in their place nor takes away what an earlier start with other settings has
\* put there, and one without the password leaves its ciphertext alone.
BlankSettingsChangeNothing ==
  [][/\ "oracle" \notin settings => oracle' = oracle
     /\ "password" \notin settings /\ "password" \in seeded => "password" \in seeded']_vars

\* "watching for seal events ... and re-unseals + refreshes the pipeline
\* token automatically": in the end Vault is open, whatever restarted and
\* failed before, unless the keys were lost; and the file has a valid token,
\* unless it was spoilt while the monitor, which looks at the seal only, had
\* no reason to write another.
TokenWorks == <>[]((lost \/ Open) /\ (lost \/ spoilt \/ Valid))
=============================================================================
