---------------------------- MODULE ConfigLoader ----------------------------
(***************************************************************************)
(* The multi-source configuration of a host: shared/config.                *)
(*                                                                         *)
(* A configuration is a function from its fields to values; a source gives *)
(* values to some of them.  The two plugin settings count as fields: a     *)
(* file's table "plugins" is merged with the defaults like the top level.  *)
(***************************************************************************)
EXTENDS Naturals, Sequences, Collections

StringFields == {"core_type", "core_binary_path", "core_config_path", "log_level", "listen_addr",
                 "pid_file"}
BoolFields == {"tray", "auto_connect"}
PluginFields == {"plugins_dir", "enabled"}
Fields == StringFields \cup BoolFields \cup PluginFields

\* The fields an environment variable can set.
EnvFields == StringFields \cup BoolFields

\* PinglingConfig::default: what a text field is by default does not matter.
Defaults == [f \in Fields |-> IF f = "tray" THEN TRUE
                              ELSE IF f = "auto_connect" THEN FALSE ELSE "default"]

\* What may be found under a path: nothing, an unreadable or ill-typed file, or
\* values for some fields; and the format its extension stands for.
Missing == [exists |-> FALSE]
Broken(format) == [exists |-> TRUE, format |-> format, parses |-> FALSE]
File(format, values) == [exists |-> TRUE, format |-> format, parses |-> TRUE, values |-> values]
Formats == {"yaml", "yml", "json"}

Loaded(config) == [ok |-> TRUE, config |-> config]
Failed(reason) == [ok |-> FALSE, reason |-> reason]

----------------------------------------------------------------------------

ParseBoolEnv(value) == value \notin {"", "0", "false", "FALSE", "False"}

EnvValue(field, value) == IF field \in BoolFields THEN ParseBoolEnv(value) ELSE value

\* A variable whose value is not Unicode makes the iteration over all of them panic,
\* whatever its name is.
NotUnicode == "not unicode"
Readable(env) == \A name \in DOMAIN env : env[name] # NotUnicode

\* Variables of other names, also those of the plugin settings, are skipped.
ApplyEnvOverrides(env, config) ==
  IF ~Readable(env) THEN Failed("panic")
  ELSE Loaded([f \in Fields |-> IF f \in DOMAIN env \cap EnvFields THEN EnvValue(f, env[f])
                                ELSE config[f]])

LoadFile(env, file) ==
  IF file.exists /\ file.format \notin Formats THEN Failed("format")
  ELSE IF ~file.exists THEN Failed("build")
  ELSE IF ~file.parses THEN Failed("parse")
  ELSE ApplyEnvOverrides(env, file.values ++ Defaults)

LoadEnvOnly(env) == ApplyEnvOverrides(env, Defaults)

\* The user's directory, if there is one, and the system's, if it is included;
\* each with its two names.
SearchPaths(userDir, includeSystemPaths) ==
  (IF userDir THEN <<"user.yaml", "user.json">> ELSE <<>>)
  \o (IF includeSystemPaths THEN <<"etc.yaml", "etc.json">> ELSE <<>>)

Existing(paths, files) == {i \in DOMAIN paths : files[paths[i]].exists}

\* A slip: a file that cannot be loaded is passed over.
LoadEnvTolerant(env, paths, files) ==
  LET good == {i \in Existing(paths, files) : LoadFile(env, files[paths[i]]).ok}
  IN IF good = {} THEN LoadEnvOnly(env)
     ELSE LET first == CHOOSE i \in good : \A j \in good : i <= j
          IN LoadFile(env, files[paths[first]])

\* The first file that exists decides, also if it cannot be loaded.
LoadEnv(env, paths, files) ==
  LET found == Existing(paths, files)
  IN IF found = {} THEN LoadEnvOnly(env)
     ELSE LET first == CHOOSE i \in found : \A j \in found : i <= j
          IN LoadFile(env, files[paths[first]])

----------------------------------------------------------------------------
(* What the loader promises, said of the sources and not of the steps.     *)

\* The value of a field comes from the environment if it can, else from the one
\* file, else from the defaults.
Cascade(env, values, config) ==
  \A f \in Fields :
     config[f] = IF f \in DOMAIN env /\ f \notin PluginFields THEN EnvValue(f, env[f])
                 ELSE IF f \in DOMAIN values THEN values[f] ELSE Defaults[f]

\* No path before the i-th has a file.
FoundFirst(paths, files, i) ==
  files[paths[i]].exists /\ \A j \in 1 .. i - 1 : ~files[paths[j]].exists

=============================================================================
