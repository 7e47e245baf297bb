------------------------------ MODULE Startup -------------------------------
(* How `arc run` comes by its configuration: from a file, which `arc config`    *)
(* writes, or from a token in a vault, which it keeps in a cache of its own so   *)
(* that later starts need neither the vault nor GitHub.                           *)
EXTENDS Integers

CONSTANTS
  Tokens,         \* tokens, of which GitHub accepts those that are issued and not revoked
  Logins, TypeOf, \* accounts, and whether each is a "User" or an "Organization"
  Host,           \* "linux", "darwin" or "windows"
  Variables,      \* environment variables that a configuration may name, as ${VAR}
  Written,        \* configurations that somebody may have written by hand
  Answers,        \* [group, pools] that the wizard may be told to customize to
  DefaultMax,     \* DefaultMaxRunners
  Max             \* the -max flag

ASSUME TypesAssumption == TypeOf \in [Logins -> {"User", "Organization"}]
ASSUME VariablesAssumption == "GITHUB_TOKEN" \in Variables
ASSUME MaxAssumption == DefaultMax \in Nat \ {0} /\ Max \in Int

VARIABLES
  vault,     \* the item in 1Password
  accepted, issued,   \* tokens GitHub accepts, and has accepted
  cache,     \* ~/.arc/credentials.json
  file,      \* arc.yaml, and
  by,        \* history: whether the wizard wrote it
  wizard, draft,      \* the step `arc config` is at, and what it will write
  stage,     \* the step `arc run` is at
  env,       \* the variables it found set as it read the file, to values that fit in there
  item, cached,       \* the credentials it has, and whether they are the cache's
  config,    \* the configuration it goes by
  proven,    \* history: a start has left its credentials in the cache
  denied     \* history: GitHub rejected the credentials of this start

account == <<vault, accepted, issued>>
files   == <<file, by, wizard, draft>>
start   == <<stage, env, item, cached, config>>
vars    == <<account, cache, files, start, proven, denied>>

Nothing == [is |-> "nothing"]
Torn    == [is |-> "torn"]
Item(t, l, type) == [is |-> "item", token |-> t, login |-> l, type |-> type]

-----------------------------------------------------------------------------
(* Configurations: defaults and validation *)

\* `blocks` are the provider settings that are given, `vars` the variables that are
\* named with no default.
ProviderOf(p) == IF p.provider # "" THEN p.provider
                 ELSE IF Host = "darwin" THEN "process" ELSE "docker"

DefaultPool(p) ==
  [p EXCEPT !.provider = ProviderOf(p),
            !.blocks = IF ProviderOf(p) = "process" THEN @ \cup {"process"} ELSE @]
Defaults(c) == [c EXCEPT !.pools = {DefaultPool(p) : p \in @}]

ValidLimits(p) == p.min >= 0 /\ p.max >= 1 /\ p.min <= p.max
ValidPool(c, p) ==
  /\ ValidLimits(p) /\ ("owner" \in c.account => p.min = 0)
  /\ p.provider \in {"docker", "process"} /\ p.blocks = {p.provider}
  /\ p.provider = "docker" => ~p.mac

Valid(c) ==
  /\ c.account \in {{"org"}, {"owner"}} /\ c.auth \in {{"token"}, {"app"}}
  /\ "owner" \in c.account => c.auth = {"token"} /\ ~c.group
  /\ c.pools # {} /\ \A p \in c.pools : ValidPool(c, p)
  /\ \A p, q \in c.pools : p.name = q.name => p = q

HostPool == [name |-> Host, min |-> 0, max |-> IF Max < 1 THEN DefaultMax ELSE Max,
             provider |-> "process", blocks |-> {}, mac |-> Host = "darwin"]

\* What is derived from verified credentials.
Derived == [is |-> "config", account |-> {IF item.type = "Organization" THEN "org" ELSE "owner"},
            auth |-> {"token"}, group |-> FALSE, vars |-> {}, pools |-> {HostPool}]

-----------------------------------------------------------------------------

Init ==
  /\ accepted \in SUBSET Tokens /\ issued = accepted
  /\ vault = Nothing \/ \E t \in Tokens, l \in Logins : vault = Item(t, l, "")
  /\ cache = Nothing /\ proven = FALSE /\ denied = FALSE
  /\ file \in {Nothing} \cup Written /\ by = "hand" /\ wizard = "off" /\ draft = Nothing
  /\ stage = "down" /\ env = {} /\ item = Nothing /\ cached = FALSE /\ config = Nothing

(* The account's owner *)

IssueToken(t) ==
  /\ t \notin issued
  /\ accepted' = accepted \cup {t} /\ issued' = issued \cup {t}
  /\ UNCHANGED <<vault, cache, files, start, proven, denied>>

RevokeToken(t) ==
  /\ accepted' = accepted \ {t}
  /\ UNCHANGED <<vault, issued, cache, files, start, proven, denied>>

FillVault(t, l) ==
  /\ vault' = Item(t, l, "")
  /\ UNCHANGED <<accepted, issued, cache, files, start, proven, denied>>

-----------------------------------------------------------------------------
(* arc run.  It fails with an error, and is started again. *)

Go(to) == stage' = to
Forgets == item' = Nothing /\ cached' = FALSE /\ config' = Nothing
Fails == stage' = "failed" /\ Forgets

Begin ==
  /\ stage \in {"down", "failed"} /\ Go("configure") /\ denied' = FALSE
  /\ env' = {} /\ Forgets
  /\ UNCHANGED <<account, cache, files, proven>>

\* A file that is there is used, also when it makes no sense; a variable that it
\* names and that is not set is an error, and not an empty text.
LoadFile ==
  /\ stage = "configure" /\ file # Nothing
  /\ env' \in SUBSET Variables
  /\ IF file # Torn /\ file.vars \subseteq env' /\ Valid(Defaults(file))
     THEN config' = [Defaults(file) EXCEPT !.vars = {}] /\ Go("up") /\ UNCHANGED <<item, cached>>
     ELSE Fails
  /\ UNCHANGED <<account, cache, files, proven, denied>>

MReadCacheStrictly ==
  /\ stage = "configure" /\ file = Nothing
  /\ IF cache = Nothing THEN Go("vault") /\ UNCHANGED <<item, cached, config>>
     ELSE IF cache = Torn THEN Fails
     ELSE Go("probe") /\ item' = cache /\ cached' = TRUE /\ UNCHANGED config
  /\ UNCHANGED <<account, cache, files, env, proven, denied>>

\* A cache that cannot be read counts as none.
ReadCache ==
  /\ stage = "configure" /\ file = Nothing
  /\ IF cache \in {Nothing, Torn} THEN Go("vault") /\ UNCHANGED <<item, cached>>
     ELSE Go("probe") /\ item' = cache /\ cached' = TRUE
  /\ UNCHANGED <<account, cache, files, env, config, proven, denied>>

LoadVault ==
  /\ stage = "vault" /\ vault # Nothing
  /\ Go("probe") /\ item' = vault /\ cached' = FALSE
  /\ UNCHANGED <<account, cache, files, env, config, proven, denied>>

\* No op, nobody to authorize it, no such item.
VaultFails ==
  /\ stage = "vault" /\ Fails
  /\ UNCHANGED <<account, cache, files, env, proven, denied>>

Probed ==
  /\ stage = "probe" /\ item.token \in accepted
  /\ item' = Item(item.token, item.login, TypeOf[item.login]) /\ Go("save")
  /\ UNCHANGED <<account, cache, files, env, cached, config, proven, denied>>

\* A 401, or a 403, which a token that is accepted may get as well.
Rejected ==
  /\ stage = "probe" /\ denied' = TRUE
  /\ IF cached THEN Go("vault") /\ UNCHANGED <<item, cached, config>> ELSE Fails
  /\ UNCHANGED <<account, cache, files, env, proven>>

Revoked == Rejected /\ item.token \notin accepted

\* GitHub cannot be reached, or is in trouble: what was verified before will do.
MUnreachableTrustsVault ==
  /\ stage = "probe"
  /\ Go("save") /\ UNCHANGED <<item, cached, config>>
  /\ UNCHANGED <<account, cache, files, env, proven, denied>>

Unreachable ==
  /\ stage = "probe"
  /\ IF cached /\ item.type # "" THEN Go("save") /\ UNCHANGED <<item, cached, config>> ELSE Fails
  /\ UNCHANGED <<account, cache, files, env, proven, denied>>

\* WriteCache: the file is emptied first.
Truncate ==
  /\ stage = "save" /\ Go("saving") /\ cache' = Torn /\ proven' = FALSE
  /\ UNCHANGED <<account, files, env, item, cached, config, denied>>

\* The cache is written, or not, which is only warned of.
Derive == IF Valid(Defaults(Derived))
          THEN config' = Defaults(Derived) /\ Go("up") /\ UNCHANGED <<item, cached>>
          ELSE Fails

MSaveUntyped ==
  /\ stage = "saving" /\ Derive
  /\ cache' = [item EXCEPT !.type = ""] /\ proven' = TRUE
  /\ UNCHANGED <<account, files, env, denied>>

Save ==
  /\ stage = "saving" /\ Derive
  /\ cache' = item /\ proven' = TRUE
  /\ UNCHANGED <<account, files, env, denied>>

SaveFails ==
  /\ stage \in {"save", "saving"} /\ Derive
  /\ UNCHANGED <<account, cache, files, env, proven, denied>>

\* At any moment, also while it saves.
Stop ==
  /\ stage \notin {"down", "failed"} /\ Go("down") /\ env' = {} /\ Forgets
  /\ UNCHANGED <<account, cache, files, proven, denied>>

-----------------------------------------------------------------------------
(* arc config *)

\* The token of a fresh start is ${GITHUB_TOKEN}.
Fresh == [is |-> "config", account |-> {}, auth |-> {"token"}, group |-> FALSE,
          vars |-> {"GITHUB_TOKEN"}, pools |-> {}]
WizardPool == [HostPool EXCEPT !.max = IF Host = "windows" THEN 2 ELSE 4,
                               !.provider = IF Host = "linux" THEN "docker" ELSE @,
                               !.blocks = IF Host = "linux" THEN {"docker"} ELSE @]

Wizard(from, to) ==
  wizard = from /\ wizard' = to /\ UNCHANGED <<account, cache, start, proven, denied>>

\* What the file says, or a fresh start; a file that does not parse is left alone.
Old == IF file = Nothing THEN Fresh ELSE file

\* One account and one way to authenticate, as often as GitHub refuses them; then
\* the group and the pools, of which there has to be one, are customized or not.
\* What is answered, a token to begin with, may name variables.
Asked ==
  Answers \cup {[group |-> Old.group, pools |-> IF Old.pools = {} THEN {WizardPool} ELSE Old.pools]}

Assembled ==
  {[is |-> "config", account |-> {owner}, auth |-> {method}, group |-> a.group, vars |-> named,
    pools |-> a.pools] : owner \in {"org", "owner"}, method \in {"token", "app"},
                         named \in SUBSET Variables, a \in Asked}

\* What was answered is valid, whether its variables are set or not, or nothing is
\* written; the file is emptied first.
OverwriteFile ==
  /\ file # Torn /\ Wizard("off", "write")
  /\ \E c \in Assembled : Valid(Defaults(c)) /\ draft' = c
  /\ file' = Torn /\ by' = "wizard"

WriteFile == Wizard("write", "off") /\ file' = draft /\ draft' = Nothing /\ UNCHANGED by

\* It is killed while it writes.
Kill == Wizard("write", "off") /\ draft' = Nothing /\ UNCHANGED <<file, by>>

\* Somebody edits the file, or does without it.
EditFile ==
  /\ wizard = "off" /\ file' \in {Nothing} \cup Written /\ by' = "hand"
  /\ UNCHANGED <<account, cache, wizard, draft, start, proven, denied>>

-----------------------------------------------------------------------------

Progress ==
  \/ Begin \/ LoadFile \/ ReadCache \/ LoadVault \/ Probed \/ Truncate \/ Save \/ SaveFails

Next ==
  \/ \E t \in Tokens : IssueToken(t) \/ RevokeToken(t) \/ \E l \in Logins : FillVault(t, l)
  \/ Progress \/ VaultFails \/ Rejected \/ Unreachable \/ Stop
  \/ OverwriteFile \/ WriteFile \/ Kill \/ EditFile

Spec == Init /\ [][Next]_vars

\* arc is started again whenever it has stopped; now and then the vault and
\* GitHub answer, and nobody stops it before it is up.
Fairness ==
  /\ WF_vars(Progress) /\ SF_vars(ReadCache) /\ SF_vars(LoadVault)
  /\ SF_vars(Probed) /\ SF_vars(Revoked) /\ SF_vars(Truncate) /\ SF_vars(Save)

FairSpec == Spec /\ Fairness

-----------------------------------------------------------------------------

(* A start that fails does so for want of something that only its user can give:  *)
(* a file that was written by hand or cut short, or names a variable that is not      *)
(* set (expandEnv), or, as long as no earlier start has left its credentials, the      *)
(* vault and GitHub, or a token that is accepted.  What the wizard has written loads   *)
(* wherever the variables it names are set; what was verified once needs no network.    *)
StartsUnaided ==
  [][stage # "failed" /\ stage' = "failed" =>
       IF stage = "configure" THEN by = "hand" \/ file = Torn \/ ~(file.vars \subseteq env')
       ELSE denied' \/ ~proven]_vars

(* What arc goes by was verified: limits a pool can keep, one account of the kind  *)
(* it is, with a token GitHub has accepted, however often the token, the account     *)
(* in the vault and the file have changed and whichever of them could not be read.    *)
RunsWhatWasVerified ==
  stage = "up" =>
    /\ \A p \in config.pools : 0 <= p.min /\ p.min <= p.max /\ p.max >= 1
                               /\ ("owner" \in config.account => p.min = 0)
    /\ item # Nothing =>
         /\ item.token \in issued
         /\ config.account = {IF TypeOf[item.login] = "Organization" THEN "org" ELSE "owner"}

(* No stop, however timed, keeps arc from coming by its configuration again: with   *)
(* an item in the vault that GitHub accepts and no file in its way, it has one again   *)
(* and again, whatever its cache has been left as (autoConfig).  What it does with it   *)
(* then, from the overrides to the server, can fail and is no part of this.              *)
VaultIsGood == file = Nothing /\ vault # Nothing /\ (vault # Nothing => vault.token \in accepted)
ComesUp == <>[]VaultIsGood => []<>(stage = "up")
=============================================================================
