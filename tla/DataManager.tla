---------------------------- MODULE DataManager ----------------------------
(***************************************************************************)
(* rDataManager: how the program boots, which live status it reaches, how  *)
(* the data thread saves the totals and the parameters, and what a restart,*)
(* a HALT or a loss of power leaves on the disk                            *)
(* (src/tritonn/data_manager.cpp, src/tritonn/data/manager_dump.cpp,       *)
(* src/shared/simplefile.cpp, src/xml/xmlfile.cpp and the packets Restart  *)
(* and LoadDump of json_manager.cpp).                                      *)
(*                                                                         *)
(* simpleFileSave truncates the file and then writes it: each save is two  *)
(* steps, and a crash between them leaves an unusable file.  All totals    *)
(* are one number and all dumped parameters one value; a dump is its hash  *)
(* and that value.  The test-and-set of the live status is one step here;  *)
(* LiveStatus models the races of its parts.                               *)
(***************************************************************************)
EXTENDS Naturals

CONSTANTS
  Configs,       \* names that FILE_CONF may hold
  ValidConfigs,  \* those rDataConfig::LoadFile loads without an error
  Args,          \* command lines: --force-run, --no-dump, --config
  Params,        \* values interfaces write to the dumped parameters
  InitTotals,    \* dumps of the totals found at the first boot
  InitVars,      \* dumps of the parameters found at the first boot
  RestartKinds,  \* restarts the operator asks for: "WARM", "COLD", "DEBUG"
  MaxTotal,      \* bound: the totals grow up to this value
  MaxCrash       \* bound: number of crashes

Bad == "bad"     \* an empty file, or one that does not parse
None == "none"   \* no file
Default == 0     \* a total or a parameter that was not loaded

\* A dump file: its hash and the value in it.  The hash is the constant that
\* LoadConfig sets ("own"), or that of an older program ("old").
NoFile == [h |-> None, v |-> Default]
BadFile == [h |-> Bad, v |-> Default]
Own(v) == [h |-> "own", v |-> v]

Totals == 0..MaxTotal
Dump(V) == [h : {"own", "old"}, v : V] \cup {NoFile, BadFile}

ASSUME DataManagerAssumption ==
  /\ ValidConfigs \subseteq Configs /\ {Bad, None} \cap Configs = {}
  /\ Args \subseteq [force : BOOLEAN, nodump : BOOLEAN, config : Configs \cup {None}]
  /\ RestartKinds \subseteq {"WARM", "COLD", "DEBUG"}
  /\ MaxTotal \in Nat /\ MaxCrash \in Nat
  /\ InitTotals \subseteq Dump(Totals)
  /\ InitVars \subseteq Dump(Params \cup {Default})

VARIABLES
  fRestart, fConf, fTotals, fVars,  \* FILE_RESTART, FILE_CONF, the two dumps
  pc,           \* the main thread, in LoadConfig
  dpc,          \* the data thread, in Proccesing; it holds the mutex outside "cycle"
  ipc,          \* the IO thread, "halt" inside DoHalt
  jpc,          \* the JSON thread, in Restart
  request,      \* the arguments of that Restart and the live status it read
  args,         \* the command line of this run
  live, halt,   \* m_live, Halt
  conf,         \* the configuration read
  totals,       \* the totals of all objects
  params,       \* the dumped variables
  doSaveVars,   \* m_doSaveVars
  prefix,       \* m_prefix of the dumps was set
  docTotals, docVars,  \* m_xmlDoc of m_dumpTotals and m_dumpVars
  resVars,      \* m_dumpVars.m_result
  crashes,      \* number of crashes so far
  kept,         \* history: the totals that nothing has allowed to be lost
  wasHalted     \* history: the previous run ended orderly, in HALT

files == <<fRestart, fConf, fTotals, fVars>>
memory == <<totals, params, doSaveVars, prefix, docTotals, docVars, resVars>>
threads == <<dpc, ipc, jpc, request>>
status == <<live, halt>>
history == <<crashes, kept, wasHalted>>
vars == <<files, pc, threads, args, status, conf, memory, history>>

Live == {"STARTING", "REBOOT_COLD", "DUMP_TOTALS", "DUMP_VARS", "RUNNING", "HALT"}
NoRequest == [kind |-> "WARM", conf |-> None, live |-> "STARTING"]

Init ==
  /\ fRestart = None /\ fConf \in Configs
  /\ fTotals \in InitTotals /\ fVars \in InitVars
  /\ pc = "down" /\ args \in Args
  /\ dpc = "cycle" /\ ipc = "run" /\ jpc = "idle" /\ request = NoRequest
  /\ live = "STARTING" /\ halt = 0 /\ conf = None
  /\ totals = Default /\ params = Default /\ doSaveVars = 0 /\ prefix = 0
  /\ docTotals = NoFile /\ docVars = NoFile /\ resVars = "ok"
  /\ crashes = 0 /\ kept = fTotals.v /\ wasHalted = 0
-----------------------------------------------------------------------------
(* The end of a process and the start of the next one. *)

\* main: a supervisor starts the program again.  --no-dump renounces the totals.
Start ==
  /\ pc = "down" /\ pc' = "readRestart"
  /\ args' \in Args
  /\ kept' = IF args'.nodump THEN Default ELSE kept
  /\ UNCHANGED <<files, threads, status, conf, memory, crashes, wasHalted>>

\* The memory of the process is gone; the files are as they are.
ProcessEnds ==
  /\ pc' = "down"
  /\ dpc' = "cycle" /\ ipc' = "run" /\ jpc' = "idle" /\ request' = NoRequest
  /\ live' = "STARTING" /\ halt' = 0 /\ conf' = None
  /\ totals' = Default /\ params' = Default /\ doSaveVars' = 0 /\ prefix' = 0
  /\ docTotals' = NoFile /\ docVars' = NoFile /\ resVars' = "ok"
  /\ UNCHANGED <<files, args, kept>>

Crash ==
  /\ pc # "down" /\ crashes < MaxCrash
  /\ ProcessEnds
  /\ crashes' = crashes + 1 /\ wasHalted' = 0

\* Every thread has left its loop: none is in the middle of a save.
Exit ==
  /\ pc = "up" /\ jpc = "finish" /\ dpc = "cycle" /\ ipc = "run"
  /\ ProcessEnds
  /\ wasHalted' = halt
  /\ UNCHANGED crashes
-----------------------------------------------------------------------------
(* Booting: rDataManager::LoadConfig, before the other threads run. *)

\* Mutant: the request is deleted before it is read.
ReadRestart_Late ==
  /\ pc = "readRestart" /\ pc' = "deleteRestart"
  /\ UNCHANGED <<files, threads, args, status, conf, memory, history>>

\* getConfFile: a cold or debug restart was requested, unless it is ignored.
ReadRestart ==
  /\ pc = "readRestart" /\ pc' = "deleteRestart"
  /\ live' = IF ~args.force /\ fRestart \in {"cold", "debug"}
             THEN "REBOOT_COLD" ELSE live
  /\ UNCHANGED <<files, threads, args, halt, conf, memory, history>>

\* Mutant: the request is left on the disk.
DeleteRestart_Keeps ==
  /\ pc = "deleteRestart" /\ pc' = "readConf"
  /\ UNCHANGED <<files, threads, args, status, conf, memory, history>>

DeleteRestart ==
  /\ pc = "deleteRestart" /\ pc' = "readConf"
  /\ fRestart' = None
  /\ UNCHANGED <<fConf, fTotals, fVars, threads, args, status, conf, memory, history>>

\* What FILE_RESTART holds after a write to the truncated file: when another
\* thread has written to it meanwhile, "cold" over "debug" gives "coldg".
Over(text) == IF text = "cold" /\ fRestart = "debug" THEN Bad ELSE text

\* DoHalt up to the save of FILE_RESTART: the status, then the truncated file.
\* A second call returns at once.
HaltBegins ==
  /\ halt = 0
  /\ halt' = 1 /\ live' = "HALT" /\ fRestart' = Bad

\* DoHalt in LoadConfig.
BootHalts ==
  /\ HaltBegins /\ pc' = "bootHalt"
  /\ UNCHANGED <<fConf, fTotals, fVars, threads, args, memory, history>>

\* The end of DoHalt's save; LoadConfig returns and the threads are started.
BootHaltSaved ==
  /\ pc = "bootHalt" /\ pc' = "up"
  /\ fRestart' = "cold"
  /\ UNCHANGED <<fConf, fTotals, fVars, threads, args, status, conf, memory, history>>

\* The name of the configuration: --config goes before FILE_CONF.
ConfName == IF args.config # None THEN args.config ELSE fConf

\* getConfFile: without a readable FILE_CONF the system halts, cold or not.
ReadConf ==
  /\ pc = "readConf"
  /\ \/ /\ ConfName \in Configs /\ conf' = ConfName
        /\ pc' = IF live = "STARTING" THEN "loadFile" ELSE "up"
        /\ UNCHANGED <<files, status, threads, args, memory, history>>
     \/ ConfName \notin Configs /\ BootHalts /\ UNCHANGED conf

\* rDataConfig::LoadFile, and the choice between loadDumps and --no-dump.
LoadFile ==
  /\ pc = "loadFile"
  /\ UNCHANGED conf
  /\ \/ /\ conf \in ValidConfigs
        /\ IF args.nodump THEN live' = "RUNNING" /\ pc' = "up" /\ UNCHANGED prefix
                          ELSE pc' = "checkTotals" /\ prefix' = 1 /\ UNCHANGED live
        /\ UNCHANGED <<files, threads, args, halt, totals, params, doSaveVars,
                       docTotals, docVars, resVars, history>>
     \/ conf \notin ValidConfigs /\ BootHalts

\* loadDumps, the totals: another hash waits for the operator; an unusable
\* file is reported (EID_SYSTEM_DUMPERROR) and deleted, then the system halts.
CheckTotals ==
  /\ pc = "checkTotals"
  /\ \/ /\ fTotals.h \in {"own", None}
        /\ docTotals' = fTotals /\ pc' = "checkVars"
        /\ UNCHANGED <<live, fTotals, kept>>
     \/ /\ fTotals.h = "old"
        /\ docTotals' = fTotals /\ live' = "DUMP_TOTALS" /\ pc' = "up"
        /\ UNCHANGED <<fTotals, kept>>
     \/ /\ fTotals.h = Bad
        /\ docTotals' = NoFile /\ fTotals' = NoFile /\ kept' = Default
        /\ pc' = "badDump" /\ UNCHANGED live
  /\ UNCHANGED <<fRestart, fConf, fVars, threads, args, halt, conf, totals, params,
                 doSaveVars, prefix, docVars, resVars, crashes, wasHalted>>

BadDumpHalts == pc = "badDump" /\ BootHalts /\ UNCHANGED conf

\* A loaded document gives its values; no document leaves the defaults.
Loaded(doc, value) == IF doc.h = None THEN value ELSE doc.v

\* Mutant: the totals are not loaded with the parameters.
CheckVars_NoTotals ==
  /\ pc = "checkVars" /\ fVars.h \in {"own", None}
  /\ resVars' = IF fVars.h = "own" THEN "ok" ELSE "notfound"
  /\ params' = Loaded(fVars, params)
  /\ docVars' = NoFile /\ live' = "RUNNING" /\ pc' = "up"
  /\ UNCHANGED <<files, threads, args, halt, conf, totals, doSaveVars, prefix,
                 docTotals, history>>

\* loadDumps, the parameters; when both dumps are good or absent they are
\* loaded (loadDataTotals, loadDataVariables) and the system runs.
CheckVars ==
  /\ pc = "checkVars"
  /\ \/ /\ fVars.h \in {"own", None}
        /\ totals' = Loaded(docTotals, totals) /\ docTotals' = NoFile
        /\ params' = Loaded(fVars, params) /\ docVars' = NoFile
        /\ resVars' = IF fVars.h = "own" THEN "ok" ELSE "notfound"
        /\ live' = "RUNNING" /\ pc' = "up" /\ UNCHANGED fVars
     \/ /\ fVars.h = "old"
        /\ docVars' = fVars /\ resVars' = "notequal"
        /\ live' = "DUMP_VARS" /\ pc' = "up"
        /\ UNCHANGED <<totals, params, docTotals, fVars>>
     \/ /\ fVars.h = Bad
        /\ docVars' = NoFile /\ fVars' = NoFile /\ resVars' = "error"
        /\ pc' = "badDump"
        /\ UNCHANGED <<totals, params, docTotals, live>>
  /\ UNCHANGED <<fRestart, fConf, fTotals, threads, args, halt, conf, doSaveVars,
                 prefix, history>>

Boot ==
  \/ ReadRestart \/ DeleteRestart \/ ReadConf \/ LoadFile \/ CheckTotals
  \/ CheckVars \/ BadDumpHalts \/ BootHaltSaved
-----------------------------------------------------------------------------
(* The data thread: one cycle of Proccesing, under the mutex. *)

\* The objects are calculated, in RUNNING only; the totals may grow.
Calculate ==
  /\ pc = "up" /\ dpc = "cycle" /\ live = "RUNNING"
  /\ totals' \in {totals, totals + 1} \cap Totals
  /\ dpc' = "saveVars"
  /\ UNCHANGED <<files, pc, ipc, jpc, request, args, status, conf, params,
                 doSaveVars, prefix, docTotals, docVars, resVars, history>>

\* DoHalt after a failed save; it returns at once when the system is halted already.
SaveFails(next, halting) ==
  IF halt = 1 THEN dpc' = next /\ UNCHANGED <<status, fRestart>>
              ELSE HaltBegins /\ dpc' = halting

CalculateHalts ==
  /\ pc = "up" /\ dpc = "cycle" /\ live = "RUNNING"
  /\ HaltBegins /\ dpc' = "halt"
  /\ UNCHANGED <<fConf, fTotals, fVars, pc, ipc, jpc, request, args, conf, memory, history>>

\* Mutant: a dump that is on the disk is taken for the current one.
SaveVars_Clears ==
  /\ dpc = "saveVars"
  /\ \/ live # "RUNNING" /\ dpc' = "cycle" /\ UNCHANGED doSaveVars
     \/ /\ live = "RUNNING" /\ doSaveVars' = 0
        /\ dpc' = IF doSaveVars = 1 /\ fVars.h # "own" THEN "openVars" ELSE "saveTotals"
  /\ UNCHANGED <<files, pc, ipc, jpc, request, args, status, conf,
                 totals, params, prefix, docTotals, docVars, resVars, history>>

\* saveDataVariables begins, if a parameter was written since the last save.
SaveVars ==
  /\ dpc = "saveVars"
  /\ \/ live # "RUNNING" /\ dpc' = "cycle" /\ UNCHANGED doSaveVars
     \/ /\ live = "RUNNING" /\ doSaveVars' = 0
        /\ dpc' = IF doSaveVars = 1 THEN "openVars" ELSE "saveTotals"
  /\ UNCHANGED <<files, pc, ipc, jpc, request, args, status, conf,
                 totals, params, prefix, docTotals, docVars, resVars, history>>

\* simpleFileSaveExt truncates the file.
OpenDump ==
  /\ \/ dpc = "openVars" /\ dpc' = "writeVars" /\ fVars' = BadFile /\ UNCHANGED fTotals
     \/ dpc = "openTotals" /\ dpc' = "writeTotals" /\ fTotals' = BadFile /\ UNCHANGED fVars
  /\ UNCHANGED <<fRestart, fConf, pc, ipc, jpc, request, args, status, conf,
                 memory, history>>

\* What a save writes: without the prefix of loadDumps there is no root and no hash.
DumpOf(v) == IF prefix = 1 THEN Own(v) ELSE BadFile

VarsWritten ==
  /\ dpc = "writeVars" /\ dpc' = "saveTotals"
  /\ fVars' = DumpOf(params)
  /\ UNCHANGED <<fRestart, fConf, fTotals, pc, ipc, jpc, request, args, status, conf,
                 memory, history>>

VarsFailed ==
  /\ dpc \in {"openVars", "writeVars"} /\ SaveFails("saveTotals", "haltVars")
  /\ UNCHANGED <<fConf, fTotals, fVars, pc, ipc, jpc, request, args, conf, memory, history>>

\* saveDataTotals begins when m_timerTotal has finished.
SaveTotals ==
  /\ dpc = "saveTotals" /\ dpc' \in {"openTotals", "cycle"}
  /\ UNCHANGED <<files, pc, ipc, jpc, request, args, status, conf, memory, history>>

Larger(a, b) == IF a < b THEN b ELSE a

TotalsWritten ==
  /\ dpc = "writeTotals" /\ dpc' = "cycle"
  /\ fTotals' = DumpOf(totals)
  /\ kept' = IF prefix = 1 THEN Larger(kept, totals) ELSE kept
  /\ UNCHANGED <<fRestart, fConf, fVars, pc, ipc, jpc, request, args, status, conf,
                 memory, crashes, wasHalted>>

TotalsFailed ==
  /\ dpc \in {"openTotals", "writeTotals"} /\ SaveFails("cycle", "halt")
  /\ UNCHANGED <<fConf, fTotals, fVars, pc, ipc, jpc, request, args, conf, memory, history>>

\* The end of DoHalt's save.  The totals are saved even after a failed save of
\* the parameters.
DataHaltSaved ==
  /\ \/ dpc = "halt" /\ dpc' = "cycle"
     \/ dpc = "haltVars" /\ dpc' = "saveTotals"
  /\ fRestart' = Over("cold")
  /\ UNCHANGED <<fConf, fTotals, fVars, pc, ipc, jpc, request, args, status, conf,
                 memory, history>>

DataThread ==
  \/ Calculate \/ CalculateHalts \/ SaveVars \/ OpenDump \/ VarsWritten \/ VarsFailed
  \/ SaveTotals \/ TotalsWritten \/ TotalsFailed \/ DataHaltSaved
-----------------------------------------------------------------------------
(* The IO thread: a module that fails halts the system.  In COLD-START no     *)
(* configuration was loaded and there are no modules.                         *)

IOHalts ==
  /\ pc = "up" /\ ipc = "run" /\ live # "REBOOT_COLD"
  /\ HaltBegins /\ ipc' = "halt"
  /\ UNCHANGED <<fConf, fTotals, fVars, pc, dpc, jpc, request, args, conf, memory, history>>

IOHaltSaved ==
  /\ ipc = "halt" /\ ipc' = "run"
  /\ fRestart' = Over("cold")
  /\ UNCHANGED <<fConf, fTotals, fVars, pc, dpc, jpc, request, args, status, conf,
                 memory, history>>

IOThread == IOHalts \/ IOHaltSaved
-----------------------------------------------------------------------------
(* The JSON thread: what the operator asks for. *)

\* rVariableClass::set of a dumped variable, between two cycles.
SetParam(v) ==
  /\ pc = "up" /\ jpc = "idle" /\ dpc = "cycle"
  /\ params' = v /\ doSaveVars' = 1
  /\ UNCHANGED <<files, pc, threads, args, status, conf, totals, prefix, docTotals,
                 docVars, resVars, history>>

\* forceLoadDumpTotals.  m_dumpVars was not checked on the way to DUMP_TOTALS,
\* so its result is still OK and the parameters are always asked for next.
ForceLoadTotals(load) ==
  /\ pc = "up" /\ jpc = "idle" /\ live = "DUMP_TOTALS"
  /\ IF load THEN /\ totals' = Loaded(docTotals, totals) /\ docTotals' = NoFile
                  /\ UNCHANGED <<fTotals, kept>>
             ELSE /\ fTotals' = NoFile /\ kept' = Default
                  /\ UNCHANGED <<totals, docTotals>>
  /\ live' = IF resVars \in {"ok", "notequal"} THEN "DUMP_VARS" ELSE "STARTING"
  /\ UNCHANGED <<fRestart, fConf, fVars, pc, threads, args, halt, conf, params,
                 doSaveVars, prefix, docVars, resVars, crashes, wasHalted>>

\* forceLoadDumpVars.  A file that was never checked has no name to delete.
ForceLoadVars(load) ==
  /\ pc = "up" /\ jpc = "idle" /\ live = "DUMP_VARS"
  /\ IF load THEN /\ params' = Loaded(docVars, params) /\ docVars' = NoFile
                  /\ UNCHANGED fVars
             ELSE /\ fVars' = IF resVars = "notequal" THEN NoFile ELSE fVars
                  /\ UNCHANGED <<params, docVars>>
  /\ live' = "RUNNING"
  /\ UNCHANGED <<fRestart, fConf, fTotals, pc, threads, args, halt, conf, totals,
                 doSaveVars, prefix, docTotals, resVars, history>>

\* The rest of Restart: in COLD-START the chosen configuration is saved first.
RestartGoesOn(r) ==
  IF r.live = "REBOOT_COLD" THEN jpc' = "writeConf" /\ fConf' = Bad
                            ELSE jpc' = "finish" /\ UNCHANGED fConf

\* Packet_Restart and Restart: a configuration is accepted, and required, in
\* COLD-START only.
Restart(kind, c) ==
  /\ pc = "up" /\ jpc = "idle"
  /\ (c # None) <=> (live = "REBOOT_COLD")
  /\ request' = [kind |-> kind, conf |-> c, live |-> live]
  /\ IF kind = "WARM" THEN RestartGoesOn(request') /\ UNCHANGED fRestart
                      ELSE fRestart' = Bad /\ jpc' = "writeRestart" /\ UNCHANGED fConf
  /\ UNCHANGED <<fTotals, fVars, pc, dpc, ipc, args, status, conf, memory, history>>

RestartWritten ==
  /\ jpc = "writeRestart"
  /\ fRestart' = Over(IF request.kind = "COLD" THEN "cold" ELSE "debug")
  /\ RestartGoesOn(request)
  /\ UNCHANGED <<fTotals, fVars, pc, dpc, ipc, request, args, status, conf, memory, history>>

ConfWritten ==
  /\ jpc = "writeConf" /\ jpc' = "finish"
  /\ fConf' = request.conf
  /\ UNCHANGED <<fRestart, fTotals, fVars, pc, dpc, ipc, request, args, status, conf,
                 memory, history>>

Operator ==
  \/ \E v \in Params : SetParam(v)
  \/ \E load \in BOOLEAN : ForceLoadTotals(load) \/ ForceLoadVars(load)
  \/ \E kind \in RestartKinds, c \in Configs \cup {None} : Restart(kind, c)

JSONThread == Operator \/ RestartWritten \/ ConfWritten

Next == Start \/ Crash \/ Exit \/ Boot \/ DataThread \/ IOThread \/ JSONThread

Spec == Init /\ [][Next]_vars

\* The threads go on, a supervisor starts the program again, and an operator
\* answers in time: restarts a halted system, chooses a loadable configuration
\* in COLD-START, confirms dumps.
Fairness ==
  /\ WF_vars(Start) /\ SF_vars(Exit) /\ WF_vars(Boot)
  /\ WF_vars(Calculate)
  /\ WF_vars(SaveVars \/ OpenDump \/ VarsWritten \/ SaveTotals \/ TotalsWritten \/ DataHaltSaved)
  /\ WF_vars(IOHaltSaved) /\ WF_vars(RestartWritten \/ ConfWritten)
  /\ SF_vars(live = "HALT" /\ Restart("WARM", None))
  /\ SF_vars(\E c \in ValidConfigs : Restart("WARM", c))
  /\ SF_vars(ForceLoadTotals(TRUE)) /\ SF_vars(ForceLoadVars(TRUE))

LiveSpec == Spec /\ Fairness
-----------------------------------------------------------------------------
(* Properties. *)

TypeOK ==
  /\ fRestart \in {None, Bad, "cold", "debug"} /\ fConf \in Configs \cup {Bad}
  /\ fTotals \in Dump(Totals) /\ fVars \in Dump(Params \cup {Default})
  /\ pc \in {"down", "readRestart", "deleteRestart", "readConf", "loadFile",
             "checkTotals", "checkVars", "badDump", "bootHalt", "up"}
  /\ dpc \in {"cycle", "saveVars", "openVars", "writeVars", "saveTotals",
              "openTotals", "writeTotals", "halt", "haltVars"}
  /\ ipc \in {"run", "halt"}
  /\ jpc \in {"idle", "writeRestart", "writeConf", "finish"}
  /\ request \in [kind : {"WARM", "COLD", "DEBUG"}, conf : Configs \cup {None}, live : Live]
  /\ args \in Args /\ live \in Live /\ halt \in 0..1
  /\ conf \in Configs \cup {None}
  /\ totals \in Totals /\ params \in Params \cup {Default}
  /\ doSaveVars \in 0..1 /\ prefix \in 0..1
  /\ docTotals \in Dump(Totals) \ {BadFile}
  /\ docVars \in Dump(Params \cup {Default}) \ {BadFile}
  /\ resVars \in {"ok", "notequal", "notfound", "error"}
  /\ crashes \in Nat /\ kept \in Totals /\ wasHalted \in 0..1

\* A system that runs has the totals that were last saved, or larger ones:
\* crashes in the middle of a save, restarts and HALTs never take them back,
\* unless an unusable dump was reported, the operator declined the dump or the
\* program was started with --no-dump.
TotalsKept == live = "RUNNING" => totals >= kept

\* Whatever else the operator and the threads did meanwhile, the run after a
\* halted one comes up in COLD-START (or halts again): DoHalt's request is
\* neither overwritten nor deleted too early.  Not with --force-run.
HaltBootsCold ==
  pc = "up" /\ wasHalted = 1 /\ ~args.force => live \in {"REBOOT_COLD", "HALT"}

\* A parameter whose save was asked for reaches the disk, if the system goes on
\* running and nobody writes another one: the request is cleared before the
\* save, never after a newer write.  Not with --no-dump: what is saved then has no
\* header, and the next boot rejects it.
ParamsSaved ==
  \A v \in Params :
    (live = "RUNNING" /\ ~args.nodump /\ doSaveVars = 1 /\ params = v)
      ~> (fVars = Own(v) \/ params # v \/ live # "RUNNING")

\* The parameters are to be saved, or being saved; and they are on the disk.
SavePending == doSaveVars = 1 \/ dpc \in {"openVars", "writeVars"}
OnDisk == fVars = Own(params)

\* While the system runs, what was asked for is not given up before it is done: no
\* step of any thread forgets parameters that are neither saved nor to be saved.
\* Not with --no-dump, as above.
SaveHeld ==
  [][live = "RUNNING" /\ live' = "RUNNING" /\ ~args.nodump /\ (SavePending \/ OnDisk)
       => SavePending' \/ OnDisk']_vars

\* Every HALT, crash and restart ends in RUNNING, unless a crash has left
\* FILE_CONF unreadable, or the program is always started with --force-run: then
\* COLD-START, in which another configuration can be chosen, is passed by.
RecoversWithConf ==
  []<>(live = "RUNNING" \/ args.force \/ (fConf \notin Configs /\ jpc # "writeConf"))
=============================================================================
