----------------------------- MODULE HostProofs ------------------------------
(* Theorems about what a host starts from and what arc installs on it, for      *)
(* every set of tokens, accounts, configurations written by hand, answers to     *)
(* the wizard, flags and programs that set up the template.                       *)
EXTENDS MCHost, TLAPS

-----------------------------------------------------------------------------
(* Startup: what a start goes by *)

(* Credentials that were verified once: a token GitHub has accepted, of an      *)
(* account whose kind is known.                                                  *)
Verified(x) ==
  \E t \in issued, l \in Logins : x = Item(t, l, TypeOf[l])

Unverified(x) == \E t \in Tokens, l \in Logins : x = Item(t, l, "")

(* What is kept of earlier starts: the cache holds verified credentials, or      *)
(* nothing that can be read, and the latter only as long as none were proven.    *)
KeptInv ==
  /\ accepted \subseteq issued
  /\ vault = Nothing \/ Unverified(vault)
  /\ cache \in {Nothing, Torn} \/ Verified(cache)
  /\ proven => cache \notin {Nothing, Torn}

(* What the start under way has in hand, by its step. *)
StageInv ==
  /\ stage = "configure" => item = Nothing
  /\ stage = "probe" => IF cached THEN Verified(item) ELSE Unverified(item)
  /\ stage \in {"save", "saving"} => Verified(item)
  /\ stage = "vault" \/ (stage = "probe" /\ ~cached) => denied \/ ~proven

(* What the wizard writes is valid; that its variables are set is up to the start. *)
WizardInv ==
  /\ by \in {"hand", "wizard"}
  /\ wizard = "write" => Valid(Defaults(draft))
  /\ by = "wizard" => file \in {Nothing, Torn} \/ Valid(Defaults(file))

(* What was verified has a kind, and is neither nothing nor torn. *)
LEMMA VerifiedItems ==
  ASSUME NEW x, Verified(x)
  PROVE  /\ x \notin {Nothing, Torn}
         /\ x.token \in issued
         /\ x.login \in Logins /\ x.type = TypeOf[x.login]
         /\ x.type \in {"User", "Organization"}
<1>1. PICK t \in issued, l \in Logins : x = Item(t, l, TypeOf[l])
  BY DEF Verified
<1>2. x.is = "item" /\ x.token = t /\ x.login = l /\ x.type = TypeOf[l]
  BY <1>1 DEF Item
<1>3. x # Nothing /\ x # Torn
  BY <1>2 DEF Nothing, Torn
<1> QED BY <1>2, <1>3, TypesAssumption

LEMMA UnverifiedItems ==
  ASSUME NEW x, Unverified(x)
  PROVE  /\ x.token \in Tokens /\ x.login \in Logins
         /\ x.token \in issued => Verified(Item(x.token, x.login, TypeOf[x.login]))
<1>1. PICK t \in Tokens, l \in Logins : x = Item(t, l, "")
  BY DEF Unverified
<1>2. x.token = t /\ x.login = l
  BY <1>1 DEF Item
<1> QED BY <1>2 DEF Verified

(* The configuration derived from verified credentials is always valid. *)
LEMMA DerivedIsValid ==
  ASSUME Verified(item)
  PROVE  /\ Valid(Defaults(Derived))
         /\ Defaults(Derived).account =
              {IF TypeOf[item.login] = "Organization" THEN "org" ELSE "owner"}
<1>1. item.type = TypeOf[item.login]
  BY VerifiedItems
<1>2. Defaults(Derived) =
        [is |-> "config", account |-> {IF item.type = "Organization" THEN "org" ELSE "owner"},
         auth |-> {"token"}, group |-> FALSE, vars |-> {},
         pools |-> {DefaultPool(HostPool)}]
  <2>1. {DefaultPool(p) : p \in {HostPool}} = {DefaultPool(HostPool)}
    OBVIOUS
  <2>2. Defaults(Derived) = [Derived EXCEPT !.pools = {DefaultPool(HostPool)}]
    BY <2>1 DEF Defaults, Derived
  <2> QED BY <2>2 DEF Derived
<1>3. DefaultPool(HostPool) =
        [name |-> Host, min |-> 0, max |-> IF Max < 1 THEN DefaultMax ELSE Max,
         provider |-> "process", blocks |-> {"process"}, mac |-> Host = "darwin"]
  <2>1. ProviderOf(HostPool) = "process" /\ HostPool.blocks = {}
    BY DEF ProviderOf, HostPool
  <2>2. DefaultPool(HostPool) =
          [HostPool EXCEPT !.provider = "process", !.blocks = {} \cup {"process"}]
    BY <2>1 DEF DefaultPool
  <2> QED BY <2>2 DEF HostPool
<1>4. ValidPool(Defaults(Derived), DefaultPool(HostPool))
  BY <1>2, <1>3, MaxAssumption DEF ValidPool, ValidLimits
<1>5. Valid(Defaults(Derived))
  BY <1>2, <1>4 DEF Valid
<1> QED BY <1>1, <1>2, <1>5

StartInv == KeptInv /\ StageInv /\ WizardInv /\ RunsWhatWasVerified

LEMMA StartInit == Init => StartInv
<1> SUFFICES ASSUME Init PROVE StartInv
  OBVIOUS
<1>1. KeptInv
  <2>1. vault = Nothing \/ Unverified(vault)
    BY DEF Init, Unverified
  <2> QED BY <2>1 DEF Init, KeptInv
<1>2. StageInv /\ RunsWhatWasVerified
  BY DEF Init, StageInv, RunsWhatWasVerified
<1>3. WizardInv
  BY DEF Init, WizardInv
<1> QED BY <1>1, <1>2, <1>3 DEF StartInv

(* GitHub forgets no token it has issued, so what was verified stays so. *)
LEMMA VerifiedStays ==
  ASSUME issued \subseteq issued', NEW x, Verified(x)
  PROVE  Verified(x)'
  BY DEF Verified

LEMMA OwnerStep ==
  ASSUME StartInv,
         \/ \E t \in Tokens : IssueToken(t) \/ RevokeToken(t) \/ \E l \in Logins : FillVault(t, l)
         \/ UNCHANGED vars
  PROVE  StartInv'
<1>1. /\ issued \subseteq issued' /\ accepted' \subseteq issued'
      /\ UNCHANGED <<cache, files, start, proven, denied>>
      /\ vault' = vault \/ Unverified(vault')
  BY DEF StartInv, KeptInv, IssueToken, RevokeToken, FillVault, vars, account, Unverified
<1>2. \A x : Unverified(x)' <=> Unverified(x)
  BY DEF Unverified
<1>3. KeptInv' /\ StageInv' /\ WizardInv'
  BY <1>1, <1>2, VerifiedStays
     DEF StartInv, KeptInv, StageInv, WizardInv, start, files
<1>4. RunsWhatWasVerified'
  BY <1>1 DEF StartInv, RunsWhatWasVerified, start
<1> QED BY <1>3, <1>4 DEF StartInv

LEMMA RunStep ==
  ASSUME StartInv, Progress \/ VaultFails \/ Rejected \/ Unreachable \/ Stop
  PROVE  StartInv'
<1> USE DEF StartInv, KeptInv, StageInv, Go, Fails, Forgets, account, files, start
<1>0. UNCHANGED <<account, files>>
  BY DEF Progress, Begin, LoadFile, ReadCache, LoadVault, Probed, Truncate, Save,
         SaveFails, VaultFails, Rejected, Unreachable, Stop
<1>1. WizardInv'
  BY <1>0 DEF WizardInv
<1>2. \A x : (Verified(x)' <=> Verified(x)) /\ (Unverified(x)' <=> Unverified(x))
  BY <1>0 DEF Verified, Unverified
<1>3. CASE Begin
  BY <1>0, <1>1, <1>2, <1>3 DEF Begin, RunsWhatWasVerified
<1>4. CASE LoadFile
  <2>1. CASE stage' = "up"
    <3>1. /\ Valid(Defaults(file)) /\ item' = Nothing
          /\ config' = [Defaults(file) EXCEPT !.vars = {}]
      BY <1>4, <2>1 DEF LoadFile
    <3>2. Defaults(file) = [file EXCEPT !.pools = {DefaultPool(p) : p \in @}]
      BY DEF Defaults
    <3>3. config'.pools = Defaults(file).pools /\ config'.account = Defaults(file).account
      BY <3>1, <3>2
    <3>4. \A p \in Defaults(file).pools : ValidPool(Defaults(file), p)
      BY <3>1 DEF Valid
    <3>5. RunsWhatWasVerified'
      BY <3>1, <3>3, <3>4 DEF RunsWhatWasVerified, ValidPool, ValidLimits
    <3> QED BY <1>0, <1>1, <1>2, <1>4, <2>1, <3>5 DEF LoadFile
  <2>2. CASE stage' # "up"
    BY <1>0, <1>1, <1>2, <1>4, <2>2 DEF LoadFile, RunsWhatWasVerified
  <2> QED BY <2>1, <2>2
<1>5. CASE ReadCache
  BY <1>0, <1>1, <1>2, <1>5 DEF ReadCache, RunsWhatWasVerified
<1>6. CASE LoadVault
  BY <1>0, <1>1, <1>2, <1>6 DEF LoadVault, RunsWhatWasVerified
<1>7. CASE VaultFails
  BY <1>0, <1>1, <1>2, <1>7 DEF VaultFails, RunsWhatWasVerified
<1>8. CASE Probed
  <2>1. Verified(item)'
    <3>1. item.token \in issued
      BY <1>8 DEF Probed
    <3>2. Verified(Item(item.token, item.login, TypeOf[item.login]))
      BY <1>8, <3>1, VerifiedItems, UnverifiedItems DEF Probed, Verified
    <3> QED BY <1>2, <1>8, <3>2 DEF Probed
  <2> QED BY <1>0, <1>1, <1>2, <1>8, <2>1 DEF Probed, RunsWhatWasVerified
<1>9. CASE Rejected
  BY <1>0, <1>1, <1>2, <1>9 DEF Rejected, RunsWhatWasVerified
<1>10. CASE Unreachable
  <2>1. stage' = "save" => Verified(item)
    BY <1>10 DEF Unreachable
  <2> QED BY <1>0, <1>1, <1>2, <1>10, <2>1 DEF Unreachable, RunsWhatWasVerified
<1>11. CASE Truncate
  BY <1>0, <1>1, <1>2, <1>11 DEF Truncate, RunsWhatWasVerified
<1>12. CASE Save \/ SaveFails
  <2>1. Verified(item)
    BY <1>12 DEF Save, SaveFails
  <2>2. stage' = "up" /\ config' = Defaults(Derived) /\ item' = item
    BY <1>12, <2>1, DerivedIsValid DEF Save, SaveFails, Derive
  <2>3. RunsWhatWasVerified'
    BY <1>0, <2>1, <2>2, DerivedIsValid, VerifiedItems
       DEF RunsWhatWasVerified, Valid, ValidPool, ValidLimits
  <2>4. KeptInv'
    BY <1>0, <1>2, <1>12, <2>1, VerifiedItems DEF Save, SaveFails
  <2> QED BY <1>1, <2>2, <2>3, <2>4
<1>13. CASE Stop
  BY <1>0, <1>1, <1>2, <1>13 DEF Stop, RunsWhatWasVerified
<1> QED
  BY <1>3, <1>4, <1>5, <1>6, <1>7, <1>8, <1>9, <1>10, <1>11, <1>12, <1>13 DEF Progress

LEMMA WizardStep ==
  ASSUME StartInv, OverwriteFile \/ WriteFile \/ Kill \/ EditFile
  PROVE  StartInv'
<1>1. /\ UNCHANGED <<account, cache, start, proven, denied>>
      /\ WizardInv'
  BY DEF StartInv, WizardInv, OverwriteFile, WriteFile, Kill, EditFile, Wizard
<1>2. \A x : (Verified(x)' <=> Verified(x)) /\ (Unverified(x)' <=> Unverified(x))
  BY <1>1 DEF Verified, Unverified, account
<1>3. KeptInv' /\ StageInv'
  BY <1>1, <1>2 DEF StartInv, KeptInv, StageInv, account, start
<1>4. RunsWhatWasVerified'
  BY <1>1 DEF StartInv, RunsWhatWasVerified, account, start
<1> QED BY <1>1, <1>3, <1>4 DEF StartInv

LEMMA StartStep == StartInv /\ [Next]_vars => StartInv'
  BY OwnerStep, RunStep, WizardStep DEF Next

LEMMA StartCorrect == Spec => []StartInv
  BY StartInit, StartStep, PTL DEF Spec

(* What arc goes by was verified, for every history of tokens, vault, cache      *)
(* and file (resolveConfig, autoConfig; config.go, Validate).                     *)
THEOREM RunsOnlyWhatWasVerified == Spec => []RunsWhatWasVerified
  BY StartCorrect, PTL DEF StartInv

(* A start fails only for want of something its user has to give: what the       *)
(* wizard wrote loads wherever the variables it names are set, credentials that   *)
(* were verified always give a valid configuration, and once they are in the        *)
(* cache neither the vault nor the network is missed (config.Load, autoConfig,       *)
(* verifyCredentials, WriteCache).                                                    *)
THEOREM StartsAlwaysUnaided == Spec => StartsUnaided
<1> DEFINE Unaided ==
      stage # "failed" /\ stage' = "failed" =>
        IF stage = "configure" THEN by = "hand" \/ file = Torn \/ ~(file.vars \subseteq env')
        ELSE denied' \/ ~proven
<1>1. ASSUME StartInv, Next
      PROVE  Unaided
  <2> USE DEF Go, Fails, start, StartInv
  <2>1. CASE LoadFile
    BY <1>1, <2>1 DEF LoadFile, WizardInv
  <2>2. CASE VaultFails
    BY <1>1, <2>2 DEF VaultFails, StageInv
  <2>3. CASE Rejected
    BY <1>1, <2>3 DEF Rejected
  <2>4. CASE Unreachable
    BY <1>1, <2>4, VerifiedItems DEF Unreachable, StageInv
  <2>5. CASE Save \/ SaveFails
    BY <1>1, <2>5, DerivedIsValid DEF Save, SaveFails, Derive, StageInv
  <2>6. CASE Begin \/ ReadCache \/ LoadVault \/ Probed \/ Truncate \/ Stop
    BY <2>6 DEF Begin, ReadCache, LoadVault, Probed, Truncate, Stop
  <2>7. CASE UNCHANGED start
    BY <2>7
  <2> QED
    BY <1>1, <2>1, <2>2, <2>3, <2>4, <2>5, <2>6, <2>7
    DEF Next, Progress, IssueToken, RevokeToken, FillVault, OverwriteFile, WriteFile,
        Kill, EditFile, Wizard
<1> QED BY <1>1, StartCorrect, PTL DEF Spec, StartsUnaided

-----------------------------------------------------------------------------
(* Installs: what an installation leaves behind *)

(* As long as nobody has met anybody, what is checked and renamed is a whole     *)
(* template: every step that leaves less in the staging directory is taken by     *)
(* somebody who is at it, too.                                                      *)
TemplateInv ==
  /\ template = "part" => met
  /\ \A p \in Installers : at[p] \in {"check", "rename"} => met \/ staging = "whole"

TunnelInv ==
  /\ fetching \in {"off", "fetched", "placed", "broken"}
  /\ tunnel \in {"part", "inert"} => fetching \in {"placed", "broken"}

(* The program works until Windows has it moved aside, and then what takes its   *)
(* place, or is put back, works.                                                   *)
ProgramInv ==
  /\ updating \in {"off", "download", "verify", "swap", "replace"}
  /\ updating \in {"download", "verify", "swap"} => exe = "works"
  /\ updating \in {"swap", "replace"} => download = "works"
  /\ updating = "replace" => platform = "windows" /\ exe = "none" /\ aside = "works"
  /\ exe = "works" \/ (platform = "windows" /\ exe = "none" /\ aside = "works")

Steps == {"off", "clear", "download", "extract", "extracting", "check", "rename"}

InstallInv ==
  /\ at \in [Installers -> Steps] /\ met \in BOOLEAN
  /\ TemplateInv /\ TunnelInv /\ ProgramInv

LEMMA InstallInit == I!Init => InstallInv
  BY DEF I!Init, InstallInv, TemplateInv, TunnelInv, ProgramInv, Steps

LEMMA TemplateStep ==
  ASSUME InstallInv, NEW p \in Installers, I!Install(p)
  PROVE  InstallInv'
<1> USE DEF InstallInv, TemplateInv, Steps, I!tunnels, I!programs, I!Step, I!Busy
<1>1. UNCHANGED <<I!tunnels, I!programs, platform>>
  BY DEF I!Install, I!Look, I!Clear, I!DownloadArchive, I!Extract, I!Extracted,
         I!CheckEntrypoint, I!Commit, I!Fail, I!Interrupt
<1>2. TunnelInv' /\ ProgramInv'
  BY <1>1 DEF TunnelInv, ProgramInv
<1>3. CASE I!Look(p) \/ I!CheckEntrypoint(p) \/ I!Interrupt(p)
  BY <1>2, <1>3 DEF I!Look, I!CheckEntrypoint, I!Interrupt
<1>4. CASE I!Clear(p) \/ I!DownloadArchive(p) \/ I!Extract(p)
  BY <1>2, <1>4 DEF I!Clear, I!DownloadArchive, I!Extract
<1>5. CASE I!Extracted(p) \/ I!Commit(p) \/ I!Fail(p)
  BY <1>2, <1>5 DEF I!Extracted, I!Commit, I!Fail
<1> QED BY <1>3, <1>4, <1>5 DEF I!Install

LEMMA TunnelStep ==
  ASSUME InstallInv, I!Tunnel
  PROVE  InstallInv'
  BY DEF InstallInv, TemplateInv, TunnelInv, ProgramInv, I!templates, I!programs,
         I!Tunnel, I!Fetch, I!FetchTunnel, I!FetchFails, I!Place, I!Finish, I!FetchStops

LEMMA UpdateStep ==
  ASSUME InstallInv, I!SelfUpdate
  PROVE  InstallInv'
<1>1. TemplateInv' /\ TunnelInv' /\ UNCHANGED <<at, met>>
  BY DEF InstallInv, TemplateInv, TunnelInv, I!templates, I!tunnels, I!SelfUpdate,
         I!Update, I!BeginUpdate, I!Download, I!Verify, I!Swap, I!MoveAside,
         I!Replace, I!RollBack, I!UpdateStops
<1>2. ProgramInv'
  BY DEF InstallInv, ProgramInv, I!SelfUpdate, I!Update, I!Keep, I!BeginUpdate,
         I!Download, I!Verify, I!Swap, I!MoveAside, I!Replace, I!RollBack, I!UpdateStops
<1> QED BY <1>1, <1>2 DEF InstallInv

LEMMA InstallStep == InstallInv /\ [I!Next]_(I!vars) => InstallInv'
<1> SUFFICES ASSUME InstallInv, [I!Next]_(I!vars)
             PROVE  InstallInv'
  OBVIOUS
<1>1. CASE UNCHANGED I!vars
  BY <1>1
     DEF InstallInv, TemplateInv, TunnelInv, ProgramInv, I!vars, I!templates,
         I!tunnels, I!programs
<1> QED BY <1>1, TemplateStep, TunnelStep, UpdateStep DEF I!Next

(* What counts as installed is whole wherever an installation stops or fails,    *)
(* for any number of programs that set up the template, unless two are at it at    *)
(* a time (ensureTemplate, ensureCloudflared, selfUpdate).                          *)
THEOREM InstallsStayWhole == I!Spec => []InstallsAreWhole
<1>1. InstallInv => InstallsAreWhole
  BY DEF InstallInv, TemplateInv, TunnelInv, ProgramInv, InstallsAreWhole,
         I!InstallsAreWhole
<1> QED BY <1>1, InstallInit, InstallStep, PTL DEF I!Spec

(* The host that TLC runs does what a start does and what installations do, and  *)
(* nothing else: what is proved of either holds of it.                             *)
LEMMA HostsDoBoth == HostSpec => Spec /\ I!Spec
<1>1. HostInit => Init /\ I!Init
  BY DEF HostInit
<1>2. [HostNext]_<<vars, installs, part>> => [Next]_vars /\ [I!Next]_(I!vars)
  BY DEF HostNext, installs, I!vars, I!templates, I!tunnels, I!programs, I!Next
<1> QED BY <1>1, <1>2, PTL DEF HostSpec, Spec, I!Spec
=============================================================================
