------------------------------ MODULE Settings ------------------------------
(***************************************************************************)
(* What the environment, config.toml and credentials.toml come to: the     *)
(* store and the log each surface uses, the contact addresses, the hosts a *)
(* user adds, the capability profile, and what config show, config doctor  *)
(* and audit-log believe of them.  Each surface resolves the settings for  *)
(* itself, so a user who edits them between two commands, or has a server  *)
(* running meanwhile, can be given two answers.                            *)
(*                                                                         *)
(* A variable's value is Unset, "" (blank) or a word; a path is a sequence *)
(* of words; NoPath stands for an error.  Files live in the directory      *)
(* config_dir names, so another XDG_CONFIG_HOME is another config.toml.    *)
(***************************************************************************)
EXTENDS Integers, Sequences, FiniteSets, Catalog

CONSTANTS
  Builds,           \* the sets of features built
  Platforms,        \* of {"linux", "macos", "windows"}
  EnvValues,        \* variable -> the values it may be given
  Configs,          \* what config.toml may say
  CredFiles,        \* what credentials.toml may say
  MaxChanges

Unset == "unset"
NoPath == <<"error">>

VARIABLES
  build,     \* the features of the one binary that is installed
  platform,
  env,       \* the user's environment, inherited by what is started
  config,    \* config directory -> config.toml
  creds,     \* config directory -> credentials.toml
  changes,   \* edits so far
  server     \* the running server: its environment and its profile

settingsVars == <<build, platform, env, config, creds, changes, server>>

Vars == {"DOIGET_LOG_PATH", "DOIGET_STORE_ROOT", "XDG_CONFIG_HOME", "APPDATA", "HOME", "USERPROFILE",
         "DOIGET_CONTACT_EMAIL", "DOIGET_UNPAYWALL_EMAIL"} \cup UNION {s.enable : s \in CATALOG}

ASSUME SettingsAssumption ==
  /\ DOMAIN EnvValues \subseteq Vars /\ MaxChanges \in Nat
  /\ Platforms \subseteq {"linux", "macos", "windows"} /\ \A b \in Builds : "oa-only" \in b

Given(e, v) == e[v] # Unset
Filled(e, v) == e[v] \notin {Unset, ""}
FirstFilled(e, vs) ==
  LET here == {i \in 1..Len(vs) : Filled(e, vs[i])} IN
  IF here = {} THEN Unset ELSE vs[CHOOSE i \in here : \A j \in here : i <= j]

-----------------------------------------------------------------------------
(* Where the files are.                                                    *)

\* user_extension::config_dir, which the CLI and the server read config.toml and
\* credentials.toml from: a blank variable is one that is not set.
config_dir(e) ==
  LET v == FirstFilled(e, <<"XDG_CONFIG_HOME", "APPDATA", "HOME", "USERPROFILE">>) IN
  IF v = Unset THEN NoPath
  ELSE IF v \in {"XDG_CONFIG_HOME", "APPDATA"} THEN <<e[v]>> ELSE <<e[v], ".config">>

\* The dirs crate: the platform's own directory, whatever APPDATA says; the home
\* directory is the account's when HOME is not set.
dirs_config_dir(p, e) ==
  LET home == IF Filled(e, "HOME") THEN e["HOME"] ELSE "account" IN
  CASE p = "linux"   -> IF Filled(e, "XDG_CONFIG_HOME") THEN <<e["XDG_CONFIG_HOME"]>> ELSE <<home, ".config">>
    [] p = "macos"   -> <<home, "Library">>
    [] p = "windows" -> <<"roaming">>

LogIn(dir) == IF dir = NoPath THEN NoPath ELSE dir \o <<"doiget", "access.jsonl">>

\* The log a fetch of the CLI appends to: DOIGET_LOG_PATH as it is, blank too.
fetch_log_path(e) ==
  IF Given(e, "DOIGET_LOG_PATH") THEN <<e["DOIGET_LOG_PATH"]>> ELSE LogIn(config_dir(e))

\* The log the server appends to: its own reading of the same variables, in which
\* a blank HOME is a home directory.
mcp_log_path(e) ==
  IF Filled(e, "DOIGET_LOG_PATH") THEN <<e["DOIGET_LOG_PATH"]>>
  ELSE IF Filled(e, "XDG_CONFIG_HOME") THEN LogIn(<<e["XDG_CONFIG_HOME"]>>)
  ELSE IF Filled(e, "APPDATA") THEN LogIn(<<e["APPDATA"]>>)
  ELSE IF Given(e, "HOME") THEN LogIn(<<e["HOME"], ".config">>)
  ELSE IF Given(e, "USERPROFILE") THEN LogIn(<<e["USERPROFILE"], ".config">>)
  ELSE NoPath

\* The log audit-log verifies.
audit_log_path(p, e) ==
  IF Filled(e, "DOIGET_LOG_PATH") THEN <<e["DOIGET_LOG_PATH"]>> ELSE LogIn(dirs_config_dir(p, e))

\* The log provenance migrate rewrites.
migrate_log_path(p, e) ==
  IF Filled(e, "DOIGET_LOG_PATH") THEN <<e["DOIGET_LOG_PATH"]>> ELSE LogIn(dirs_config_dir(p, e))

\* The log config show names.
shown_log_path(e) ==
  IF Filled(e, "DOIGET_LOG_PATH") THEN <<e["DOIGET_LOG_PATH"]>> ELSE LogIn(config_dir(e))

-----------------------------------------------------------------------------
(* config.toml and credentials.toml.                                       *)

\* What a config.toml with every line commented out says, and a missing one.
Default == [root |-> Unset, contact |-> Unset, unpaywall |-> Unset,
            hosts |-> {}, academic |-> FALSE, registries |-> FALSE, parses |-> TRUE, there |-> TRUE]
NoConfig == [Default EXCEPT !.there = FALSE]
\* A file that is not TOML, or has a host pattern validate_pattern refuses.
BrokenConfig == [Default EXCEPT !.parses = FALSE]

NoCreds == [key |-> Unset, agreed |-> FALSE, parses |-> TRUE]
BrokenCreds == [NoCreds EXCEPT !.parses = FALSE]

At(files, e, none) == LET d == config_dir(e) IN IF d \in DOMAIN files THEN files[d] ELSE none

\* user_extension::load: an entry that is blank is none.
Clean(v) == IF v = "" THEN Unset ELSE v
load(c) == [c EXCEPT !.root = Clean(@), !.contact = Clean(@), !.unpaywall = Clean(@)]
\* load_or_default: a file that cannot be read is no file.
load_or_default(c) == IF c.parses THEN load(c) ELSE Default

\* The sets of hosts a user may trust in one line.
academic_repo_hosts == {"academic"}
oa_registry_hosts == {"registries"}

\* The allowlist of oa-publisher: the curated hosts, the user's, and those of the
\* sets the user trusts; the curated hosts alone when the file cannot be read.
merge_into_allowlists(c) ==
  {"curated"} \cup (IF ~c.parses THEN {}
                    ELSE c.hosts \cup (IF c.academic THEN academic_repo_hosts ELSE {})
                                 \cup (IF c.registries THEN oa_registry_hosts ELSE {}))

\* capabilities: the hosts the user has added.
user_extension_count(e, c) == IF config_dir(e) = NoPath \/ ~c.parses THEN 0 ELSE Cardinality(c.hosts)

\* credentials.toml: a key, unless blank; what it says of an agreement is not read.
api_key(k) == IF k.parses THEN Clean(k.key) ELSE Unset
advisories(k) ==
  (IF k.parses /\ k.agreed THEN {"AgreedIgnored"} ELSE {}) \cup (IF k.parses /\ k.key = "" THEN {"BlankKey"} ELSE {})

-----------------------------------------------------------------------------
(* What the commands use.                                                  *)

Usable(v) == v \notin {Unset, "", "${placeholder}"}

\* The CLI's resolve_store_root.
cli_store_root(e, c) ==
  IF Usable(e["DOIGET_STORE_ROOT"]) THEN <<e["DOIGET_STORE_ROOT"]>>
  ELSE IF config_dir(e) # NoPath /\ load_or_default(c).root # Unset THEN <<load_or_default(c).root>>
  ELSE <<"cwd", "papers">>

\* Mutant: a placeholder the host did not expand is a directory.
mcp_store_rootLiteral(e, c) ==
  IF Filled(e, "DOIGET_STORE_ROOT") THEN <<e["DOIGET_STORE_ROOT"]>>
  ELSE IF config_dir(e) # NoPath /\ load_or_default(c).root # Unset THEN <<load_or_default(c).root>>
  ELSE <<"cwd", "papers">>

\* The server's resolve_store_root.
mcp_store_root(e, c) ==
  IF Usable(e["DOIGET_STORE_ROOT"]) THEN <<e["DOIGET_STORE_ROOT"]>>
  ELSE IF config_dir(e) # NoPath /\ load_or_default(c).root # Unset THEN <<load_or_default(c).root>>
  ELSE <<"cwd", "papers">>

OrElse(a, b) == IF a = Unset THEN b ELSE a
Env(e, v) == IF Filled(e, v) THEN e[v] ELSE Unset

\* resolve_contact_emails: what is sent to Crossref and Unpaywall.
resolve_contact_emails(e, c) ==
  LET f == load_or_default(c)
      crossref == OrElse(OrElse(Env(e, "DOIGET_CONTACT_EMAIL"), f.contact), "doiget@localhost")
  IN [crossref |-> crossref, unpaywall |-> OrElse(OrElse(Env(e, "DOIGET_UNPAYWALL_EMAIL"), f.unpaywall), crossref)]

\* config show: the addresses it names.
resolve_email(e, c) ==
  LET f == load_or_default(c)
      contact == OrElse(Env(e, "DOIGET_CONTACT_EMAIL"), f.contact)
  IN [contact |-> contact, unpaywall |-> OrElse(OrElse(Env(e, "DOIGET_UNPAYWALL_EMAIL"), f.unpaywall), contact)]

\* config doctor: its checks, save the ones about directories.
doctor(e, c, k) ==
  /\ config_dir(e) # NoPath
  /\ resolve_email(e, c).contact # Unset
  /\ c.parses /\ k.parses /\ advisories(k) = {}

-----------------------------------------------------------------------------
(* The capability profile.                                                 *)

\* resolve_tdm_grant: the key, none, or the error every command then ends with,
\* also in a build without the publisher's feature.
resolve_tdm_grant(b, e, k) ==
  LET agreed == e["DOIGET_AGREE_TDM"] = "1"
      key == OrElse(Env(e, "DOIGET_KEY"), api_key(k))
  IN CASE agreed /\ key = Unset   -> "AgreedButNoKey"
       [] ~agreed /\ key # Unset  -> "KeyButNotAgreed"
       [] ~agreed /\ key = Unset  -> "none"
       [] agreed /\ key # Unset   -> IF "tdm-aps" \in b THEN key ELSE "none"

GrantErrors == {"AgreedButNoKey", "KeyButNotAgreed"}

\* resolve_metadata_flag: a switch that is given, blank too, in a build that has
\* the sources; the key of CORE is no switch.
resolve_metadata_flag(b, e, s) ==
  /\ "metadata" \in b /\ s.tier = 2
  /\ \E v \in s.enable \ {"DOIGET_CORE_API_KEY"} : Given(e, v)

\* CapabilityProfile::from_env, one source of it: ADS is switched on by its token,
\* which must not be blank.
SwitchedOn(b, e, k, s) ==
  CASE s.name = "ads"     -> "metadata" \in b /\ Filled(e, "DOIGET_ADS_TOKEN")
    [] s.name = "tdm-aps" -> resolve_tdm_grant(b, e, k) \notin GrantErrors \cup {"none"}
    [] OTHER              -> resolve_metadata_flag(b, e, s)

from_env(b, e, k) == {s.name : s \in {s \in CATALOG : SwitchedOn(b, e, k, s)}}

\* doiget_get_profile, from the profile the server started with: tiers 2 and 3.
capability_profile_to_json(profile) ==
  [tier_2 |-> profile \cap {"openalex", "semantic_scholar", "doaj", "biorxiv", "inspire", "ads",
                            "datacite", "hal", "openaire", "core", "europe-pmc"},
   tier_3 |-> profile \cap {"tdm-elsevier", "tdm-aps", "tdm-springer", "tdm-ieee"}]

-----------------------------------------------------------------------------
(* A user changes the settings; a server starts and stops.                 *)

NoServer == [up |-> FALSE, env |-> [v \in Vars |-> Unset], grant |-> "none", profile |-> {}, key_then |-> Unset]

SettingsInit ==
  /\ build \in Builds /\ platform \in Platforms
  /\ env = [v \in Vars |-> IF v = "HOME" THEN "home" ELSE Unset]
  /\ config = [d \in {<<"home", ".config">>} |-> NoConfig]
  /\ creds = [d \in {<<"home", ".config">>} |-> NoCreds]
  /\ changes = 0 /\ server = NoServer

Changed == changes < MaxChanges /\ changes' = changes + 1
Put(files, d, x) == [f \in DOMAIN files \cup {d} |-> IF f = d THEN x ELSE files[f]]

SetEnv(v, x) ==
  /\ Changed /\ env[v] # x /\ env' = [env EXCEPT ![v] = x]
  /\ UNCHANGED <<build, platform, config, creds, server>>

EditConfig(c) ==
  /\ Changed /\ config_dir(env) # NoPath /\ config' = Put(config, config_dir(env), c)
  /\ UNCHANGED <<build, platform, env, creds, server>>

\* config init: the template, over an existing file only with --force; a process
\* that ends while it writes leaves a part that need not parse.
InitConfig(force) ==
  /\ Changed /\ config_dir(env) # NoPath
  /\ force \/ ~At(config, env, NoConfig).there
  /\ \E c \in {Default, BrokenConfig} : config' = Put(config, config_dir(env), c)
  /\ UNCHANGED <<build, platform, env, creds, server>>

EditCreds(k) ==
  /\ Changed /\ config_dir(env) # NoPath /\ creds' = Put(creds, config_dir(env), k)
  /\ UNCHANGED <<build, platform, env, config, server>>

\* serve: the profile is made once, or the server does not start.
StartServer ==
  /\ ~server.up
  /\ LET k == At(creds, env, NoCreds) IN
     /\ resolve_tdm_grant(build, env, k) \notin GrantErrors
     /\ server' = [up |-> TRUE, env |-> env, grant |-> resolve_tdm_grant(build, env, k),
                   profile |-> from_env(build, env, k), key_then |-> api_key(k)]
  /\ UNCHANGED <<build, platform, env, config, creds, changes>>

StopServer ==
  /\ server.up /\ server' = NoServer
  /\ UNCHANGED <<build, platform, env, config, creds, changes>>

SettingsNext ==
  \/ \E v \in DOMAIN EnvValues : \E x \in EnvValues[v] : SetEnv(v, x)
  \/ \E c \in Configs : EditConfig(c)
  \/ \E force \in BOOLEAN : InitConfig(force)
  \/ \E k \in CredFiles : EditCreds(k)
  \/ StartServer \/ StopServer

SettingsSpec == SettingsInit /\ [][SettingsNext]_settingsVars

-----------------------------------------------------------------------------
(* Properties.                                                             *)

\* A server and a command started in one environment keep one library (which
\* config show names by the command's own resolver), config show names the
\* addresses a fetch sends, and capabilities counts the hosts that the user really
\* added: whatever is blank, a placeholder or broken, and however the files were
\* edited since.  That they keep one log is OneLog.
SurfacesAgree ==
  LET c == At(config, env, NoConfig) IN
  /\ cli_store_root(env, c) = mcp_store_root(env, c)
  /\ LET used == resolve_contact_emails(env, c)
         shown == resolve_email(env, c)
     IN /\ shown.contact # Unset => used.crossref = shown.contact
        /\ shown.contact = Unset => used.crossref = "doiget@localhost"
        /\ shown.unpaywall # Unset => used.unpaywall = shown.unpaywall
        /\ shown.unpaywall = Unset => used.unpaywall = "doiget@localhost"
  /\ user_extension_count(env, c) =
       Cardinality(merge_into_allowlists(c) \ ({"curated"} \cup academic_repo_hosts \cup oa_registry_hosts))

\* A server holds a publisher's key only if the agreement was in its environment
\* when it started, and the key it holds is the one it had then, whatever the
\* files say now ("a true startup attestation").
GrantIsAgreed ==
  server.up /\ server.grant # "none" =>
    /\ server.env["DOIGET_AGREE_TDM"] = "1"
    /\ server.grant = OrElse(Env(server.env, "DOIGET_KEY"), server.key_then)

\* Follow the advice coverage gives on a source that is not asked: build with the
\* feature it names, set the variables it names.
Advised(s) == [build |-> build \cup {s.feature}, env |-> [v \in Vars |-> IF v \in s.enable THEN "1" ELSE env[v]]]

\* Whatever a surface may ask, its HTTP client knows (the two builders are a
\* "hand-maintained twin"): what every build asks, and each source of the profile,
\* also after the advice that coverage gives is followed, which makes the source
\* ready.  The server's profile names the sources that are ready, and no others.
AdviceWorks ==
  LET k == At(creds, env, NoCreds)
      Ready(b, p) == {s.name : s \in {s \in CATALOG : configured(s, b, p) = "ready"}}
      cli == from_env(build, env, k)
  IN /\ AlwaysAsked \cup software_allowlist \cup Ready(build, cli) \subseteq cli_client(build)
     /\ server.up =>
          /\ AlwaysAsked \cup Ready(build, server.profile) \subseteq mcp_client(build)
          /\ LET shown == capability_profile_to_json(server.profile) IN
             shown.tier_2 \cup shown.tier_3 = {s.name : s \in {s \in CATALOG : s.tier > 1}} \cap Ready(build, server.profile)
     /\ \A s \in could_look(build, cli, "tdm-aps") :   \* of a paper of that publisher's
          LET to == Advised(s) IN
          /\ SwitchedOn(to.build, to.env, k, s) /\ configured(s, to.build, {s.name}) = "ready"
          /\ s.name \in cli_client(to.build) \cap mcp_client(to.build)

\* audit-log: "reader and writer can never disagree".  The log that is verified,
\* migrated and shown is the one that is written.
OneLog ==
  \A path \in {mcp_log_path(env), audit_log_path(platform, env), migrate_log_path(platform, env), shown_log_path(env)} :
    path = NoPath \/ fetch_log_path(env) = NoPath \/ path = fetch_log_path(env)
=============================================================================
