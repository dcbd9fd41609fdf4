------------------------------ MODULE Settings ------------------------------
(***************************************************************************)
(* The settings (settings.go) and the HTTP server that one of them turns   *)
(* on and off (internal/api/server.go).                                    *)
(*                                                                         *)
(* The popup of the terminal UI and the web page cycle a setting by the    *)
(* same function: the new value goes into the one Config and then into the *)
(* configuration file, which is read, changed and written over in place;   *)
(* an error on the way is logged, and the new value stands in the Config.  *)
(* The popup then starts the server in a goroutine, or closes it and waits *)
(* for it to wind up; the web page's copy of the model has no server and   *)
(* does neither.                                                           *)
(*                                                                         *)
(* A setting has two values here.  "widget_enabled" is saved like any      *)
(* other, but the start reads nothing of it; "other" stands for all but    *)
(* these two.                                                              *)
(***************************************************************************)
EXTENDS FiniteSets

CONSTANTS
  Runs,   \* goroutines in Server.Run at once: a bound
  None

\* None is neither a value nor a goroutine, and "looks" (closer) is no goroutine.
ASSUME ModelValues ==
  /\ None \notin BOOLEAN \union Runs /\ None # "looks"
  /\ "looks" \notin Runs
  /\ IsFiniteSet(Runs)

VARIABLES
  cfg,       \* Config
  file,      \* the configuration file: per setting its value, or None
  saver,     \* per caller, the setting being cycled and what it read
  closer,    \* the run that Close waits for, or where it stands
  run,       \* goroutines in Server.Run
  running, srv, \* the server's fields; srv is the run whose server it is
  strayed,   \* history: something other than a toggle decided what serves
  overlapped, \* history: two saves overlapped
  failed      \* history: a save failed

settings == <<cfg, file, saver>>
server   == <<closer, run, running, srv>>
history  == <<strayed, overlapped, failed>>
configuration == <<settings, server, history>>

Keys     == {"web_serve", "widget_enabled", "other"}
ReadBack == Keys \ {"widget_enabled"}
Callers  == {"popup", "web"}

Default == [k \in Keys |-> k # "other"]
Unset   == [k \in Keys |-> None]

\* What is read back: a key that is missing, or not looked at, has its default.
Loaded(data) ==
  [k \in Keys |-> IF k \in ReadBack /\ data[k] # None THEN data[k] ELSE Default[k]]

Still == [pc |-> "idle", key |-> None, value |-> None, data |-> Unset]
Saving(c) == saver[c].pc \in {"read", "truncate", "write"}

Serving(r) == run[r] = "serves"
Starting == {r \in Runs : run[r] \in {"spawned", "binds"}}
Quiet ==
  /\ closer = None
  /\ \A c \in Callers : saver[c] = Still
  /\ \A r \in Runs : run[r] \in {"off", "serves"}

\* main: the server is started when the setting says so.
Started(conf) ==
  {[r \in Runs |-> IF r \in first THEN "spawned" ELSE "off"] :
     first \in {f \in SUBSET Runs : Cardinality(f) = IF conf["web_serve"] THEN 1 ELSE 0}}

SettingsInit ==
  /\ file \in [Keys -> BOOLEAN \union {None}]
  /\ cfg = Loaded(file)
  /\ saver = [c \in Callers |-> Still]
  /\ closer = None
  /\ run \in Started(cfg)
  /\ running = FALSE /\ srv = None
  /\ strayed = FALSE /\ overlapped = FALSE /\ failed = FALSE

-----------------------------------------------------------------------------
(* Cycling a setting                                                       *)

\* The web page can ask only while it is served.
MayCycle(c) == saver[c] = Still /\ closer = None /\ (c = "web" => \E r \in Runs : Serving(r))

CycleSettingByKey(c, k) ==
  /\ MayCycle(c)
  /\ cfg' = [cfg EXCEPT ![k] = ~@]
  /\ saver' = [saver EXCEPT ![c] = [pc |-> "read", key |-> k, value |-> ~cfg[k], data |-> Unset]]
  /\ strayed' = IF k # "web_serve" THEN strayed
                ELSE IF c = "web" THEN TRUE
                ELSE strayed /\ ~Quiet
  /\ overlapped' = (overlapped \/ \E other \in Callers : Saving(other))
  /\ UNCHANGED <<file, server, failed>>

\* Only the popup's switch has something left to do, and does it in any case.
Applies(c) == c = "popup" /\ saver[c].key = "web_serve"
Saved(c) == [saver EXCEPT ![c] = IF Applies(c) THEN [@ EXCEPT !.pc = "apply"] ELSE Still]

\* saveConfigSetting reads the whole file and replaces one line of it.
OnlyTheKey(data, k, value) == [Unset EXCEPT ![k] = value]
Upserted(data, k, value) == [data EXCEPT ![k] = value]

ReadFile(c) ==
  /\ saver[c].pc = "read"
  /\ saver' = [saver EXCEPT ![c].pc = "truncate",
                            ![c].data = Upserted(file, saver[c].key, saver[c].value)]
  /\ UNCHANGED <<cfg, file, server, history>>

\* os.WriteFile truncates, then writes.
Truncate(c) ==
  /\ saver[c].pc = "truncate"
  /\ file' = Unset
  /\ saver' = [saver EXCEPT ![c].pc = "write"]
  /\ UNCHANGED <<cfg, server, history>>

Write(c) ==
  /\ saver[c].pc = "write"
  /\ file' = saver[c].data
  /\ saver' = Saved(c)
  /\ UNCHANGED <<cfg, server, history>>

\* The directory, or the file, cannot be made, read or opened: it stays as it
\* is.  Or the write stops short, with some lines down and the rest gone.
Fails(c) ==
  /\ \/ saver[c].pc \in {"read", "truncate"} /\ UNCHANGED file
     \/ /\ saver[c].pc = "write"
        /\ \E lines \in SUBSET Keys :
             file' = [k \in Keys |-> IF k \in lines THEN saver[c].data[k] ELSE None]
  /\ saver' = Saved(c)
  /\ failed' = TRUE
  /\ UNCHANGED <<cfg, server, strayed, overlapped>>

\* A goroutine to run the server, or Close.
Apply ==
  /\ saver["popup"].pc = "apply"
  /\ IF saver["popup"].value
     THEN /\ \E r \in Runs : run[r] = "off" /\ run' = [run EXCEPT ![r] = "spawned"]
          /\ UNCHANGED closer
     ELSE /\ closer' = "looks"
          /\ UNCHANGED run
  /\ saver' = [saver EXCEPT !["popup"] = Still]
  /\ UNCHANGED <<cfg, file, running, srv, history>>

-----------------------------------------------------------------------------
(* Server.Run                                                              *)

Claim(r) ==
  /\ run[r] = "spawned"
  /\ IF running THEN run' = [run EXCEPT ![r] = "off"] /\ UNCHANGED running
     ELSE run' = [run EXCEPT ![r] = "binds"] /\ running' = TRUE
  /\ UNCHANGED <<settings, closer, srv, history>>

Bind(r) ==
  /\ run[r] = "binds"
  /\ \/ /\ srv' = r
        /\ run' = [run EXCEPT ![r] = "serves"]
        /\ UNCHANGED strayed
     \/ /\ run' = [run EXCEPT ![r] = "unwinds"] \* no address could be bound
        /\ strayed' = TRUE
        /\ UNCHANGED srv
  /\ UNCHANGED <<settings, closer, running, overlapped, failed>>

Unwind(r) ==
  /\ run[r] = "unwinds"
  /\ running' = FALSE /\ srv' = None
  /\ run' = [run EXCEPT ![r] = "off"]
  /\ UNCHANGED <<settings, closer, history>>

-----------------------------------------------------------------------------
(* Server.Close                                                            *)

\* Only a server that is up is closed, whoever else is starting.
Close ==
  /\ closer = "looks"
  /\ IF srv = None
     THEN /\ closer' = None
          /\ UNCHANGED run
     ELSE /\ closer' = srv
          /\ run' = [run EXCEPT ![srv] = "unwinds"]
  /\ strayed' = (strayed \/ Starting # {})
  /\ UNCHANGED <<settings, running, srv, overlapped, failed>>

WaitsForNobody == closer \in Runs
HasWoundUp == closer \in Runs /\ run[closer] = "off"

Closed ==
  /\ HasWoundUp
  /\ closer' = None
  /\ UNCHANGED <<settings, run, running, srv, history>>

-----------------------------------------------------------------------------
(* A kill and the start that follows                                       *)

Restart ==
  /\ cfg' = Loaded(file)
  /\ saver' = [c \in Callers |-> Still]
  /\ closer' = None
  /\ run' \in Started(cfg')
  /\ running' = FALSE /\ srv' = None
  /\ strayed' = FALSE /\ overlapped' = FALSE /\ failed' = FALSE
  /\ UNCHANGED file

SettingsNext ==
  \/ \E c \in Callers, k \in Keys : CycleSettingByKey(c, k)
  \/ \E c \in Callers : ReadFile(c) \/ Truncate(c) \/ Write(c) \/ Fails(c)
  \/ Apply \/ Close \/ Closed
  \/ \E r \in Runs : Claim(r) \/ Bind(r) \/ Unwind(r)
  \/ Restart

SettingsSpec == SettingsInit /\ [][SettingsNext]_configuration

-----------------------------------------------------------------------------

(* Once everything has settled the server serves exactly when the setting  *)
(* says so, however fast the switch was thrown: Close waits for Run to     *)
(* wind up "so an immediate re-Run after Close is safe" (server.go:197).   *)
(* The exceptions: no address could be bound, the web page threw the       *)
(* switch, or it was thrown before the server was up.                      *)
ServesAsSet == Quiet /\ ~strayed => ((\E r \in Runs : Serving(r)) <=> cfg["web_serve"])

(* What a restart would read is what is set, and no setting is lost by     *)
(* saving another, unless two of them were saved at the same time or a     *)
(* save failed, which is only logged (settings.go:553).  That is of the    *)
(* settings the start reads: widget_enabled it does not.  It is of the     *)
(* settings and not of what is made of them: a user_agent in the file      *)
(* stands before the one user_agent_browser picks (main.go:389), and the   *)
(* switches of the command line stand before web_lan and web_tailscale for *)
(* the launch (main.go:744).                                               *)
FileFollowsSettings ==
  (\A c \in Callers : ~Saving(c)) /\ ~overlapped /\ ~failed =>
    \A k \in ReadBack : Loaded(file)[k] = cfg[k]

=============================================================================
