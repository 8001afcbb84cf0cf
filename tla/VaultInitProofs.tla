--------------------------- MODULE VaultInitProofs --------------------------
(***************************************************************************)
(* Proofs about VaultInit, for any number of tokens and of faults: type    *)
(* correctness; the keys of an initialised Vault are on the disk or were   *)
(* lost by a fault; whoever holds a pipeline token finds what it is for;   *)
(* a call of the client fails only for a cause; and a bootstrap with blank *)
(* settings changes nothing that another one has put there.                *)
(***************************************************************************)
EXTENDS VaultInit, TLAPS

\* What a pipeline token is for: the seeds that every bootstrap puts.
Must == SeedSet \ {"openPassword", "password", "oracle"}

\* The states of the daemon after a complete bootstrap, or at its last step.
AfterSeeds == {"token", "openToken", "writeToken", "monitor", "reunseal"}

\* The inductive invariant.

(* A completed bootstrap stays in its last states; its seeds are there, and *)
(* those of one that goes on are there up to its step.                      *)
SeedsSoFar ==
  /\ daemon.step = 0 => daemon.pc \in AfterSeeds
  /\ daemon.pc \in AfterSeeds => Must \subseteq seeded
  /\ \A i \in DOMAIN Seeds :
       i < daemon.step /\ Seeds[i] \in Must => Seeds[i] \in seeded

(* A call that is calm has a valid token in the file, and in its hand when  *)
(* it has read it; one that has been renewed is valid in any case.          *)
CallsAreCalm ==
  /\ client.calm => Valid /\ ~client.env
  /\ client.calm /\ client.pc \in {"fresh", "authenticated"} => client.token \in tokens
  /\ client.pc = "renewed" => client.token \in tokens

IInv ==
  TypeOK /\ KeysAreKept /\ SeedsSoFar /\ TokenOpensDoors /\ CallsAreCalm /\ FailuresAreDue

\* What a step of the client leaves alone.
ClientVars == <<vault, seeded, oracle, tokens, initFile, tokenFile, settings,
                daemon, made, lost, spoilt>>

-----------------------------------------------------------------------------
(* The seeds, one by one. *)
LEMMA TheSeeds ==
  /\ Len(Seeds) = 9 /\ DOMAIN Seeds = 1..9
  /\ \A i \in 1..9 : Seeds[i] \in SeedSet
  /\ \A s \in SeedSet : \E i \in 1..9 : Seeds[i] = s
<1>1. Len(Seeds) = 9 /\ DOMAIN Seeds = 1..9
  BY DEF Seeds
<1> QED
  BY <1>1 DEF SeedSet

(* The daemon, Vault and the client start in the invariant. *)
LEMMA InitIInv == Init => IInv
<1> SUFFICES ASSUME Init PROVE IInv
  OBVIOUS
<1>1. TypeOK
  <2>1. 0 \in 0..MaxTokens /\ 0 \in 0..MaxTrouble /\ 0 \in 0..0 /\ 0 \in 0..MaxTokens + 1
    BY BoundsAssumption
  <2>2. 1 \in 0..Len(Seeds)
    BY TheSeeds
  <2> QED
    BY <2>1, <2>2 DEF Init, TypeOK, Down
<1>2. KeysAreKept /\ TokenOpensDoors /\ FailuresAreDue
  BY DEF Init, KeysAreKept, TokenOpensDoors, FailuresAreDue
<1>3. SeedsSoFar
  BY TheSeeds DEF Init, SeedsSoFar, AfterSeeds, Down
<1>4. CallsAreCalm
  BY DEF Init, CallsAreCalm
<1> QED
  BY <1>1, <1>2, <1>3, <1>4 DEF IInv

-----------------------------------------------------------------------------
(* The records of the daemon, which holds one of m tokens, and of the client. *)
Pcs == {"down", "init", "save", "saving", "load", "unseal", "seed", "token",
        "openToken", "writeToken", "monitor", "reunseal"}
Daemons(m) ==
  [pc: Pcs, status: {0, 200, 501, 503}, step: 0..Len(Seeds), token: 0..m]
Clients ==
  [pc: {"idle", "cached", "read", "fresh", "authenticated", "renewed", "served", "failed"},
   token: 0..MaxTokens + 1, calm: BOOLEAN, env: BOOLEAN]
Vaults == [up: BOOLEAN, inited: BOOLEAN, sealed: BOOLEAN]

(* A daemon that goes on at another place keeps the rest. *)
LEMMA Moves ==
  ASSUME NEW m, NEW d \in Daemons(m), NEW p \in Pcs
  PROVE  /\ [d EXCEPT !.pc = p] \in Daemons(m)
         /\ [d EXCEPT !.pc = p].pc = p
         /\ [d EXCEPT !.pc = p].step = d.step
         /\ [d EXCEPT !.pc = p].token = d.token
         /\ [d EXCEPT !.pc = p].status = d.status
  BY DEF Daemons

(* A stopped daemon starts from the first seed. *)
LEMMA DownTypes ==
  ASSUME NEW m \in Nat
  PROVE  Down \in Daemons(m) /\ Down.pc = "down" /\ Down.step = 1
<1>1. 0 \in 0..m /\ 1 \in 0..Len(Seeds)
  BY TheSeeds
<1> QED
  BY <1>1, Zenon DEF Down, Daemons, Pcs

(* Ending a client's calm leaves the rest of it. *)
LEMMA Calms ==
  ASSUME NEW c \in Clients, NEW b \in BOOLEAN
  PROVE  LET n == [c EXCEPT !.calm = @ /\ b] IN
         /\ n \in Clients
         /\ n.pc = c.pc /\ n.token = c.token /\ n.env = c.env
         /\ n.calm = (c.calm /\ b)
  BY Zenon DEF Clients

(* What TypeOK says, field by field. *)
LEMMA TypesInFields ==
  TypeOK <=> /\ vault \in Vaults
             /\ seeded \subseteq SeedSet /\ oracle \in {"none", "blank", "set"}
             /\ made \in 0..MaxTokens /\ tokens \subseteq 1..made /\ tokenFile \in 0..made
             /\ initFile \in {"none", "partial", "keys"}
             /\ settings \subseteq {"password", "oracle"}
             /\ daemon \in Daemons(made) /\ client \in Clients
             /\ daemon.pc \in {"unseal", "seed"} \cup AfterSeeds => initFile = "keys"
             /\ trouble \in 0..MaxTrouble /\ lost \in BOOLEAN /\ spoilt \in BOOLEAN
  BY DEF TypeOK, Daemons, Clients, Vaults, Pcs, AfterSeeds

-----------------------------------------------------------------------------
(* A step that fails leads to the monitor or to the end of the daemon. *)
LEMMA GiveMoves ==
  ASSUME TypeOK, Give, ~At("down")
  PROVE  /\ daemon' \in Daemons(made')
         /\ \/ daemon'.pc = "monitor" /\ daemon'.step = 0 /\ daemon.step = 0
            \/ daemon'.pc = "down" /\ daemon'.step = 1
<1>1. made \in Nat /\ daemon \in Daemons(made)
  BY TypesInFields, BoundsAssumption
<1> QED
  BY <1>1, DownTypes DEF Give, Monitoring, Daemons, Pcs, To, At

(* What each step of the daemon does with its record: it stays in the type, *)
(* and its place and step are known.                                        *)
LEMMA TheDaemonMoves ==
  ASSUME TypeOK, SeedsSoFar
  PROVE  /\ DaemonStep => daemon' \in Daemons(made')
         /\ Begin => daemon'.pc \in {"init", "load"} /\ daemon'.step = 1
         /\ Initialise => daemon'.pc = "save" /\ daemon'.step = daemon.step
         /\ OpenInitFile => daemon'.pc = "saving" /\ daemon'.step = daemon.step
         /\ SaveKeys => daemon'.pc = "load" /\ daemon'.step = daemon.step
         /\ LoadKeys => daemon'.pc \in {"unseal", "seed"} /\ daemon'.step = daemon.step
         /\ Unseal => daemon'.pc = "seed" /\ daemon'.step = daemon.step
         /\ Seed => \/ daemon'.pc = "token" /\ daemon'.step = daemon.step /\ daemon.step = 9
                    \/ daemon'.pc = "seed" /\ daemon'.step = daemon.step + 1
         /\ CreateToken => daemon'.pc = "openToken" /\ daemon'.step = daemon.step
         /\ OpenTokenFile => daemon'.pc = "writeToken" /\ daemon'.step = daemon.step
         /\ WriteToken => daemon'.pc = "monitor" /\ daemon'.step = 0
         /\ Notice => daemon'.pc = "reunseal" /\ daemon'.step = daemon.step
         /\ Reunseal => daemon'.pc = "token" /\ daemon'.step = daemon.step
         /\ Refused => \/ daemon'.pc = "monitor" /\ daemon'.step = 0 /\ daemon.step = 0
                       \/ daemon'.pc = "down" /\ daemon'.step = 1
<1> USE TheSeeds DEF To, At
<1>1. /\ made \in Nat /\ daemon \in Daemons(made) /\ MaxTokens \in Nat
      /\ made' = made => daemon \in Daemons(made')
  BY TypesInFields, BoundsAssumption
<1>2. Status \in {0, 200, 501, 503}
  BY DEF Status
<1>3. ASSUME Begin
      PROVE  daemon' \in Daemons(made') /\ daemon'.pc \in {"init", "load"} /\ daemon'.step = 1
  <2> DEFINE p == IF Status = 501 THEN "init" ELSE "load"
  <2>1. daemon' = [pc |-> p, status |-> Status, step |-> 1, token |-> 0]
    BY <1>3 DEF Begin, Down
  <2>2. p \in {"init", "load"} /\ p \in Pcs
    BY DEF Pcs
  <2>3. Down \in Daemons(made) /\ made' = made
    BY <1>1, <1>3, DownTypes DEF Begin
  <2> HIDE DEF p
  <2> QED
    BY <1>2, <2>1, <2>2, <2>3 DEF Down, Daemons
<1>4. ASSUME Initialise
      PROVE  daemon' \in Daemons(made') /\ daemon'.pc = "save" /\ daemon'.step = daemon.step
  <2>1. daemon' = [pc |-> "save", status |-> 503, step |-> daemon.step, token |-> daemon.token]
    BY <1>1, <1>4 DEF Initialise, AfterInit, Daemons
  <2> QED
    BY <2>1, <1>1, <1>4 DEF Initialise, Daemons, Pcs
<1>5. ASSUME OpenInitFile
      PROVE  daemon' \in Daemons(made') /\ daemon'.pc = "saving" /\ daemon'.step = daemon.step
  BY <1>5, <1>1 DEF OpenInitFile, Daemons, Pcs
<1>6. ASSUME SaveKeys
      PROVE  daemon' \in Daemons(made') /\ daemon'.pc = "load" /\ daemon'.step = daemon.step
  BY <1>6, <1>1 DEF SaveKeys, Daemons, Pcs
<1>7. ASSUME LoadKeys
      PROVE  daemon' \in Daemons(made') /\ daemon'.pc \in {"unseal", "seed"} /\ daemon'.step = daemon.step
  BY <1>7, <1>1 DEF LoadKeys, Daemons, Pcs
<1>8. ASSUME Unseal
      PROVE  daemon' \in Daemons(made') /\ daemon'.pc = "seed" /\ daemon'.step = daemon.step
  BY <1>8, <1>1 DEF Unseal, AfterUnseal, Daemons, Pcs
<1>9. ASSUME Seed
      PROVE  /\ daemon' \in Daemons(made')
             /\ \/ daemon'.pc = "token" /\ daemon'.step = daemon.step /\ daemon.step = 9
                \/ daemon'.pc = "seed" /\ daemon'.step = daemon.step + 1
  <2>1. daemon.step \in 1..9 /\ made' = made
    BY <1>1, <1>9 DEF Seed, SeedsSoFar, AfterSeeds, Daemons
  <2>2. CASE daemon.step = 9
    <3>1. daemon' = [pc |-> "token", status |-> daemon.status, step |-> 9, token |-> daemon.token]
      BY <1>1, <1>9, <2>2 DEF Seed, Daemons
    <3>2. 9 \in 0..Len(Seeds) /\ "token" \in Pcs
      BY DEF Pcs
    <3>3. daemon.status \in {0, 200, 501, 503} /\ daemon.token \in 0..made
      BY <1>1 DEF Daemons
    <3>4. daemon' \in Daemons(made)
      BY <3>1, <3>2, <3>3, Zenon DEF Daemons
    <3>5. daemon'.pc = "token" /\ daemon'.step = 9
      BY <3>1
    <3> QED
      BY <3>4, <3>5, <2>1, <2>2
  <2>3. CASE daemon.step # 9
    <3>1. daemon' = [pc |-> "seed", status |-> daemon.status, step |-> daemon.step + 1,
                     token |-> daemon.token]
      BY <1>1, <1>9, <2>3 DEF Seed, Daemons
    <3> QED
      BY <3>1, <2>1, <2>3, <1>1 DEF Daemons, Pcs
  <2> QED
    BY <2>2, <2>3
<1>10. ASSUME CreateToken
      PROVE  daemon' \in Daemons(made') /\ daemon'.pc = "openToken" /\ daemon'.step = daemon.step
  <2>1. daemon' = [pc |-> "openToken", status |-> daemon.status, step |-> daemon.step, token |-> made']
    BY <1>1, <1>10 DEF CreateToken, Daemons
  <2> QED
    BY <2>1, <1>1, <1>10 DEF CreateToken, Daemons, Pcs
<1>11. ASSUME OpenTokenFile
      PROVE  daemon' \in Daemons(made') /\ daemon'.pc = "writeToken" /\ daemon'.step = daemon.step
  BY <1>11, <1>1 DEF OpenTokenFile, Daemons, Pcs
<1>12. ASSUME WriteToken
      PROVE  daemon' \in Daemons(made') /\ daemon'.pc = "monitor" /\ daemon'.step = 0
  <2>1. daemon' = [pc |-> "monitor", status |-> daemon.status, step |-> 0, token |-> daemon.token]
    BY <1>1, <1>12 DEF WriteToken, Daemons
  <2> QED
    BY <2>1, <1>1, <1>12 DEF WriteToken, Daemons, Pcs
<1>13. ASSUME Notice
      PROVE  daemon' \in Daemons(made') /\ daemon'.pc = "reunseal" /\ daemon'.step = daemon.step
  BY <1>13, <1>1 DEF Notice, Daemons, Pcs
<1>14. ASSUME Reunseal
      PROVE  daemon' \in Daemons(made') /\ daemon'.pc = "token" /\ daemon'.step = daemon.step
  BY <1>14, <1>1 DEF Reunseal, Daemons, Pcs
<1> QED
  BY <1>3, <1>4, <1>5, <1>6, <1>7, <1>8, <1>9, <1>10, <1>11, <1>12, <1>13, <1>14, GiveMoves
     DEF DaemonStep, Bootstrap, Refused

(* The client of a step of another process is what it was, or less calm. *)
LEMMA OthersCalm ==
  ASSUME TypeOK, client' = [client EXCEPT !.calm = @ /\ StaysCalm]
  PROVE  /\ client' \in Clients
         /\ client'.pc = client.pc /\ client'.token = client.token
         /\ client'.env = client.env
         /\ client'.calm = (client.calm /\ StaysCalm)
<1>1. client \in Clients /\ StaysCalm \in BOOLEAN
  BY TypesInFields DEF Valid, Open, StaysCalm
<1> QED
  BY <1>1, Calms

(* Type correctness of the daemon's steps. *)
LEMMA DaemonTypes ==
  ASSUME TypeOK, SeedsSoFar, DaemonStep, UNCHANGED <<trouble, settings>>,
         client' \in Clients
  PROVE  TypeOK'
<1>1. daemon' \in Daemons(made')
  BY TheDaemonMoves
<1>2. /\ vault \in Vaults
      /\ seeded \subseteq SeedSet /\ oracle \in {"none", "blank", "set"}
      /\ made \in 0..MaxTokens /\ tokens \subseteq 1..made /\ tokenFile \in 0..made
      /\ initFile \in {"none", "partial", "keys"}
      /\ settings \subseteq {"password", "oracle"}
      /\ daemon.token \in 0..made
      /\ daemon.pc \in {"unseal", "seed"} \cup AfterSeeds => initFile = "keys"
      /\ trouble \in 0..MaxTrouble /\ lost \in BOOLEAN /\ spoilt \in BOOLEAN
      /\ daemon.step = 0 => daemon.pc \in AfterSeeds
  BY TypesInFields DEF Daemons, SeedsSoFar
<1> SUFFICES
      /\ vault' \in Vaults
      /\ seeded' \subseteq SeedSet /\ oracle' \in {"none", "blank", "set"}
      /\ made' \in 0..MaxTokens /\ tokens' \subseteq 1..made' /\ tokenFile' \in 0..made'
      /\ initFile' \in {"none", "partial", "keys"}
      /\ daemon'.pc \in {"unseal", "seed"} \cup AfterSeeds => initFile' = "keys"
      /\ lost' \in BOOLEAN /\ spoilt' \in BOOLEAN
  BY <1>1, <1>2 DEF TypeOK, Daemons, Pcs, Clients, Vaults, AfterSeeds
<1> USE TheDaemonMoves DEF At, To, Vaults
<1>3. CASE Begin
  BY <1>2, <1>3 DEF Begin, AfterSeeds
<1>4. CASE Initialise
  BY <1>2, <1>4 DEF Initialise, AfterSeeds
<1>5. CASE OpenInitFile
  BY <1>2, <1>5 DEF OpenInitFile, AfterSeeds
<1>6. CASE SaveKeys
  BY <1>2, <1>6 DEF SaveKeys, AfterSeeds
<1>7. CASE LoadKeys
  BY <1>2, <1>7 DEF LoadKeys
<1>8. CASE Unseal
  BY <1>2, <1>8 DEF Unseal
<1>9. CASE Seed
  <2>1. daemon.step \in DOMAIN Seeds
    BY <1>2, <1>9, TheSeeds, TypesInFields DEF Seed, AfterSeeds, Daemons
  <2>2. Seeds[daemon.step] \in SeedSet
    BY <2>1 DEF SeedSet
  <2> QED
    BY <1>2, <1>9, <2>2 DEF Seed
<1>10. CASE CreateToken
  <2>1. made' = made + 1 /\ made' \in 0..MaxTokens /\ made' \in 1..made'
    BY <1>2, <1>10, BoundsAssumption DEF CreateToken
  <2>2. tokens' \subseteq 1..made' /\ tokenFile \in 0..made'
    BY <1>2, <1>10, <2>1 DEF CreateToken
  <2> QED
    BY <1>2, <1>10, <2>1, <2>2 DEF CreateToken, AfterSeeds
<1>11. CASE OpenTokenFile
  BY <1>2, <1>11 DEF OpenTokenFile, AfterSeeds
<1>12. CASE WriteToken
  BY <1>2, <1>12 DEF WriteToken, AfterSeeds
<1>13. CASE Notice
  BY <1>2, <1>13 DEF Notice, AfterSeeds
<1>14. CASE Reunseal
  BY <1>2, <1>14 DEF Reunseal, AfterSeeds
<1>15. CASE Refused
  BY <1>2, <1>15 DEF Refused, Give, Monitoring, Possible, AfterSeeds
<1> QED
  BY <1>3, <1>4, <1>5, <1>6, <1>7, <1>8, <1>9, <1>10, <1>11, <1>12, <1>13, <1>14, <1>15
     DEF DaemonStep, Bootstrap

(* Type correctness of the steps that are nobody's intention, and of Vault's. *)
LEMMA FaultTypes ==
  ASSUME TypeOK, SeedsSoFar, client' \in Clients,
         \/ VaultUp /\ UNCHANGED <<trouble, settings>>
         \/ Trouble /\ UNCHANGED settings
         \/ Kill
  PROVE  TypeOK'
<1>1. /\ vault \in Vaults /\ daemon \in Daemons(made) /\ made \in Nat
      /\ seeded \subseteq SeedSet /\ oracle \in {"none", "blank", "set"}
      /\ made \in 0..MaxTokens /\ tokens \subseteq 1..made /\ tokenFile \in 0..made
      /\ initFile \in {"none", "partial", "keys"}
      /\ settings \subseteq {"password", "oracle"}
      /\ daemon.pc \in {"unseal", "seed"} \cup AfterSeeds => initFile = "keys"
      /\ trouble \in 0..MaxTrouble /\ lost \in BOOLEAN /\ spoilt \in BOOLEAN
      /\ daemon.step = 0 => daemon.pc \in AfterSeeds
  BY TypesInFields, BoundsAssumption DEF SeedsSoFar
<1>2. Down \in Daemons(made) /\ Down.pc = "down"
  BY <1>1, DownTypes
<1>3. Untroubled => trouble' \in 0..MaxTrouble
  BY <1>1, BoundsAssumption DEF Untroubled
<1>4. /\ vault' \in Vaults /\ daemon' \in Daemons(made')
      /\ daemon'.pc \in {"unseal", "seed"} \cup AfterSeeds => initFile' = "keys"
      /\ seeded' = seeded /\ oracle' = oracle /\ made' = made
      /\ tokens' \subseteq tokens /\ tokenFile' = tokenFile /\ initFile' = initFile
      /\ settings' \subseteq {"password", "oracle"}
      /\ trouble' \in 0..MaxTrouble /\ lost' \in BOOLEAN /\ spoilt' \in BOOLEAN
  <2> USE <1>1, <1>2, <1>3
  <2>1. CASE VaultUp /\ UNCHANGED <<trouble, settings>>
    BY <2>1 DEF VaultUp, Vaults
  <2>2. CASE LoseKeys /\ UNCHANGED settings
    BY <2>2 DEF LoseKeys, Vaults, AfterSeeds
  <2>3. CASE Error /\ UNCHANGED settings
    BY <2>3, GiveMoves DEF Error, Give, At, AfterSeeds
  <2>4. CASE VaultDown /\ UNCHANGED settings
    BY <2>4 DEF VaultDown, Vaults
  <2>5. CASE Sealing /\ UNCHANGED settings
    BY <2>5 DEF Sealing, Vaults
  <2>6. CASE Expire /\ UNCHANGED settings
    BY <2>6 DEF Expire
  <2>7. CASE Kill
    BY <2>7 DEF Kill, At, AfterSeeds
  <2> QED
    BY <2>1, <2>2, <2>3, <2>4, <2>5, <2>6, <2>7 DEF Trouble
<1> QED
  BY <1>1, <1>4 DEF TypeOK, Daemons, Pcs, Clients, Vaults, AfterSeeds

(* What each step of the client does with its record. *)
LEMMA ClientMoves ==
  ASSUME TypeOK, ClientStep \/ ClientError
  PROVE  client' \in Clients
<1>1. /\ client \in Clients /\ Valid \in BOOLEAN
      /\ tokenFile \in 0..MaxTokens + 1 /\ MaxTokens + 1 \in 0..MaxTokens + 1
  BY TypesInFields, BoundsAssumption DEF Valid, Open
<1>2. CASE Call
  BY <1>1, <1>2 DEF Call, Clients
<1>3. CASE UseCached
  BY <1>1, <1>3 DEF UseCached, Clients
<1>4. CASE ReadToken
  BY <1>1, <1>4 DEF ReadToken, TokenRead, Clients
<1>5. CASE Authenticate
  BY <1>1, <1>5 DEF Authenticate, Clients
<1>6. CASE ReadSecret
  BY <1>1, <1>6 DEF ReadSecret, Clients
<1>7. CASE Return
  BY <1>1, <1>7 DEF Return, Clients
<1>8. CASE ClientError
  BY <1>1, <1>8 DEF ClientError, Clients
<1> QED
  BY <1>2, <1>3, <1>4, <1>5, <1>6, <1>7, <1>8 DEF ClientStep

(* Type correctness is kept by every step. *)
LEMMA NextTypes ==
  ASSUME TypeOK, SeedsSoFar, [Next]_vars
  PROVE  TypeOK'
<1>1. CASE OtherStep
  BY <1>1, OthersCalm, DaemonTypes, FaultTypes DEF OtherStep
<1>2. CASE ((ClientStep /\ UNCHANGED trouble) \/ ClientError) /\ UNCHANGED ClientVars
  <2>1. client' \in Clients
    BY <1>2, ClientMoves
  <2>2. trouble' \in 0..MaxTrouble
    BY <1>2, TypesInFields, BoundsAssumption DEF ClientError, Untroubled
  <2> QED
    BY <1>2, <2>1, <2>2 DEF TypeOK, Clients, ClientVars
<1>3. CASE UNCHANGED vars
  BY <1>3 DEF TypeOK, vars
<1> QED
  BY <1>1, <1>2, <1>3 DEF Next, ClientVars

-----------------------------------------------------------------------------
(* No step takes back a seed other than the password's; without settings,  *)
(* none touches the ciphertext of the password or the Oracle credentials.  *)
LEMMA NothingTakenBack ==
  ASSUME TypeOK, [Next]_vars
  PROVE  /\ seeded \ {"password"} \subseteq seeded'
         /\ "oracle" \notin settings => oracle' = oracle
         /\ "password" \notin settings /\ "password" \in seeded => "password" \in seeded'
<1>1. CASE Seed
  BY <1>1 DEF Seed, Skips
<1>2. CASE UNCHANGED <<seeded, oracle>>
  BY <1>2
<1> QED
  BY <1>1, <1>2
     DEF Next, OtherStep, Trouble, DaemonStep, Bootstrap, vars, Begin, Initialise,
     OpenInitFile, SaveKeys, LoadKeys, Unseal, CreateToken, OpenTokenFile, WriteToken,
     Notice, Reunseal, Refused, Give, VaultUp, LoseKeys, Error, VaultDown, Sealing, Expire,
     Kill

(* The seeds: what the bootstrap has put up to its step is there. *)
LEMMA SeedsKept ==
  ASSUME TypeOK, SeedsSoFar, [Next]_vars
  PROVE  SeedsSoFar'
<1>1. seeded \ {"password"} \subseteq seeded' /\ "password" \notin Must
  BY NothingTakenBack DEF Must
<1>2. CASE daemon' = daemon
  BY <1>1, <1>2 DEF SeedsSoFar
<1>3. CASE daemon'.pc \notin AfterSeeds /\ daemon'.step = 1
  BY <1>3, TheSeeds DEF SeedsSoFar
<1>4. CASE daemon.pc \in AfterSeeds /\ daemon'.pc \in AfterSeeds
  <2>1. Must \subseteq seeded /\ Must \subseteq seeded'
    BY <1>1, <1>4 DEF SeedsSoFar
  <2> QED
    BY <1>4, <2>1 DEF SeedsSoFar
<1>5. CASE daemon.pc \notin AfterSeeds /\ daemon'.pc \notin AfterSeeds /\ daemon'.step = daemon.step
  BY <1>1, <1>5 DEF SeedsSoFar
<1>6. CASE Seed
  <2>1. /\ daemon.step \in 1..9
        /\ Seeds[daemon.step] \in Must => Seeds[daemon.step] \in seeded'
    BY <1>6, TheSeeds, TypesInFields DEF Seed, Skips, Must, SeedsSoFar, AfterSeeds, At, Daemons
  <2>2. \A i \in 1..9 : i <= daemon.step /\ Seeds[i] \in Must => Seeds[i] \in seeded'
    BY <1>1, <2>1, TheSeeds DEF SeedsSoFar
  <2>3. daemon.step = 9 => Must \subseteq seeded'
    BY <2>2, TheSeeds DEF Must
  <2>4. \/ daemon'.pc = "token" /\ daemon'.step = daemon.step /\ daemon.step = 9
        \/ daemon'.pc = "seed" /\ daemon'.step = daemon.step + 1
    BY <1>6, TheDaemonMoves
  <2> QED
    BY <2>1, <2>2, <2>3, <2>4, TheSeeds DEF SeedsSoFar, AfterSeeds
<1>7. CASE Give /\ ~At("down")
  BY <1>3, <1>4, <1>7, GiveMoves DEF SeedsSoFar, AfterSeeds
<1>8. CASE DaemonStep
  BY <1>3, <1>4, <1>5, <1>6, <1>7, <1>8, TheDaemonMoves
     DEF DaemonStep, Bootstrap, AfterSeeds, At, Begin, Initialise, OpenInitFile, SaveKeys, LoadKeys, Unseal, CreateToken, OpenTokenFile, WriteToken, Notice, Reunseal, Refused
<1>9. Down.pc \notin AfterSeeds /\ Down.step = 1
  BY DEF Down, AfterSeeds
<1> QED
  BY <1>2, <1>3, <1>7, <1>8, <1>9
     DEF Next, OtherStep, Trouble, vars, VaultUp, LoseKeys, Error, VaultDown, Sealing,
     Expire, Kill

(* The keys. *)
LEMMA KeysKept ==
  ASSUME TypeOK, SeedsSoFar, KeysAreKept, [Next]_vars
  PROVE  KeysAreKept'
<1> USE DEF KeysAreKept, At
<1>1. CASE UNCHANGED <<vault, initFile, daemon, lost>>
  BY <1>1
<1>2. CASE DaemonStep
  <2>1. CASE Refused
    BY <2>1, TypesInFields DEF Refused, Give, Possible, Vaults
  <2>2. CASE Initialise
    BY <2>2, TheDaemonMoves
  <2>3. CASE OpenInitFile
    BY <2>3, TheDaemonMoves
  <2>4. CASE SaveKeys
    BY <2>4 DEF SaveKeys
  <2>5. CASE vault'.inited = vault.inited /\ UNCHANGED <<initFile, lost>> /\ ~At("save") /\ ~At("saving")
    BY <2>5
  <2> QED
    BY <1>2, <2>1, <2>2, <2>3, <2>4, <2>5, TypesInFields
       DEF DaemonStep, Bootstrap, Vaults, Begin, LoadKeys, Unseal, Seed, CreateToken,
           OpenTokenFile, WriteToken, Notice, Reunseal
<1>3. CASE LoseKeys \/ Error \/ Kill
  BY <1>3, TypesInFields DEF LoseKeys, Error, Kill, Give, Vaults
<1>4. CASE vault'.inited = vault.inited /\ UNCHANGED <<initFile, daemon, lost>>
  BY <1>4
<1> QED
  BY <1>1, <1>2, <1>3, <1>4, TypesInFields
     DEF Next, OtherStep, Trouble, vars, Vaults, VaultUp, VaultDown, Sealing, Expire

(* The doors. *)
LEMMA DoorsKept ==
  ASSUME TypeOK, SeedsSoFar, TokenOpensDoors, [Next]_vars
  PROVE  TokenOpensDoors'
<1>1. seeded \ {"password"} \subseteq seeded'
  BY NothingTakenBack
<1>2. tokens # {} => Must \subseteq seeded
  BY DEF TokenOpensDoors, Must
<1>3. CASE tokens' \subseteq tokens
  BY <1>1, <1>2, <1>3 DEF TokenOpensDoors, Must
<1>4. CASE CreateToken
  BY <1>1, <1>4 DEF CreateToken, SeedsSoFar, AfterSeeds, At, Must, TokenOpensDoors
<1> QED
  BY <1>3, <1>4
     DEF Next, OtherStep, Trouble, DaemonStep, Bootstrap, vars, Begin, Initialise,
     OpenInitFile, SaveKeys, LoadKeys, Unseal, Seed, OpenTokenFile, WriteToken, Notice,
     Reunseal, Refused, Give, VaultUp, LoseKeys, Error, VaultDown, Sealing, Expire, Kill

-----------------------------------------------------------------------------
(* A step of another process: a call that stays calm keeps what it needs,   *)
(* and only Expire takes a token away, never one that was just renewed.     *)
LEMMA OthersKeepCalm ==
  ASSUME TypeOK, CallsAreCalm, FailuresAreDue, OtherStep
  PROVE  CallsAreCalm' /\ FailuresAreDue'
<1>1. /\ client'.pc = client.pc /\ client'.token = client.token /\ client'.env = client.env
      /\ client'.calm = (client.calm /\ StaysCalm)
  BY OthersCalm DEF OtherStep
<1>2. client.pc = "renewed" => client.token \in tokens'
  BY
     DEF OtherStep, Trouble, DaemonStep, Bootstrap, Begin, Initialise, OpenInitFile,
     SaveKeys, LoadKeys, Unseal, Seed, CreateToken, OpenTokenFile, WriteToken, Notice,
     Reunseal, Refused, Give, VaultUp, LoseKeys, Error, VaultDown, Sealing, Expire, Kill,
     CallsAreCalm
<1> QED
  BY <1>1, <1>2 DEF CallsAreCalm, FailuresAreDue, StaysCalm

(* A step of the client: a failure follows a loss of calm. *)
LEMMA ClientKeepsCalm ==
  ASSUME TypeOK, TokenOpensDoors, CallsAreCalm, FailuresAreDue,
         ClientStep \/ ClientError, UNCHANGED ClientVars
  PROVE  CallsAreCalm' /\ FailuresAreDue'
<1>1. client \in Clients
  BY TypesInFields
<1>2. Valid' = Valid /\ tokenFile' = tokenFile /\ tokens' = tokens
  BY DEF ClientVars, Valid, Open
<1> SUFFICES /\ client'.calm => Valid /\ ~client'.env
             /\ client'.calm /\ client'.pc \in {"fresh", "authenticated"} =>
                  client'.token \in tokens
             /\ client'.pc = "renewed" => client'.token \in tokens
             /\ client'.pc = "failed" => ~client'.calm
  BY <1>2 DEF CallsAreCalm, FailuresAreDue
<1> USE <1>1 DEF CallsAreCalm, FailuresAreDue, Clients, Accepted
<1>3. CASE Call
  BY <1>3 DEF Call, Valid, Open
<1>4. CASE UseCached
  BY <1>4 DEF UseCached
<1>5. CASE ReadToken
  BY <1>5 DEF ReadToken, TokenRead, Valid
<1>6. CASE Authenticate
  BY <1>6 DEF Authenticate, Valid
<1>7. CASE ReadSecret
  <2>1. client.calm => {"secret", "salt", "transit", "pii-encrypt", "supabase-pwd", "policy"} \subseteq seeded
    BY DEF Valid, TokenOpensDoors, SeedSet, Seeds
  <2> QED
    BY <1>7, <2>1 DEF ReadSecret, Valid
<1>8. CASE Return
  BY <1>8 DEF Return
<1>9. CASE ClientError
  BY <1>9 DEF ClientError
<1> QED
  BY <1>3, <1>4, <1>5, <1>6, <1>7, <1>8, <1>9 DEF ClientStep

(* Calm calls and due failures are kept by every step. *)
LEMMA CalmKept ==
  ASSUME IInv, [Next]_vars
  PROVE  CallsAreCalm' /\ FailuresAreDue'
<1>1. CASE UNCHANGED vars
  BY <1>1 DEF IInv, vars, CallsAreCalm, FailuresAreDue, At, Valid, Open
<1> QED
  BY <1>1, OthersKeepCalm, ClientKeepsCalm DEF Next, IInv, ClientVars

-----------------------------------------------------------------------------
(* The inductive invariant holds in every reachable state of the daemon,   *)
(* Vault and a client.                                                     *)
THEOREM Invariance == Spec => []IInv
<1>1. IInv /\ [Next]_vars => IInv'
  BY NextTypes, KeysKept, SeedsKept, DoorsKept, CalmKept DEF IInv
<1> QED
  BY InitIInv, <1>1, PTL DEF Spec

(* Every variable of the bootstrap, of Vault and of the client keeps its    *)
(* range, and the daemon unseals and seeds only with the saved keys.        *)
THEOREM TypeCorrect == Spec => []TypeOK
  BY Invariance, PTL DEF IInv

(* Once Vault is initialised, _save_keys has written its keys or is about  *)
(* to, unless a fault lost them.                                           *)
THEOREM KeysKeptAlways == Spec => []KeysAreKept
  BY Invariance, PTL DEF IInv

(* Whoever holds a pipeline token finds everything the token is for.       *)
THEOREM DoorsOpen == Spec => []TokenOpensDoors
  BY Invariance, PTL DEF IInv

(* A call of get_vault_client and of a reader fails only for a cause.      *)
THEOREM FailuresHaveCauses == Spec => []FailuresAreDue
  BY Invariance, PTL DEF IInv

(* A bootstrap without the settings leaves alone what another one has put,  *)
(* and seeds nothing in its place.                                         *)
THEOREM BlanksChangeNothing == Spec => BlankSettingsChangeNothing
<1>1. TypeOK /\ [Next]_vars
      => [/\ "oracle" \notin settings => oracle' = oracle
          /\ "password" \notin settings /\ "password" \in seeded => "password" \in seeded']_vars
  BY NothingTakenBack
<1> QED
  BY TypeCorrect, <1>1, PTL DEF Spec, BlankSettingsChangeNothing
=============================================================================
