------------------------- MODULE DataManager_proofs -------------------------
(***************************************************************************)
(* Proofs about DataManager, for any configurations, command lines, dumps  *)
(* and bounds.                                                             *)
(***************************************************************************)
EXTENDS DataManager, TLAPS

\* A Restart under way has a configuration exactly when it was given in COLD-START.
RequestOK ==
  /\ jpc \in {"writeRestart", "writeConf"} =>
       (request.conf # None <=> request.live = "REBOOT_COLD")
  /\ jpc = "writeConf" => request.live = "REBOOT_COLD"

\* A boot that has not halted, and a process that is down, are not halted;
\* threads work and the system runs only after the boot.
BootOK ==
  /\ pc \notin {"bootHalt", "up"} => halt = 0
  /\ pc # "up" => live # "RUNNING" /\ dpc = "cycle" /\ ipc = "run" /\ jpc = "idle"

\* Where the totals are that must not be lost.
KeptOK ==
  /\ live \notin {"DUMP_TOTALS", "DUMP_VARS"} /\ fVars.h # "old"
  /\ fTotals.h # "old" /\ docTotals.h # "old"
  /\ fTotals.h = "own" => fTotals.v >= kept
  /\ fTotals.h = None => kept = 0
  /\ pc = "checkVars" =>
       /\ docTotals.h = "own" => docTotals.v >= kept
       /\ docTotals.h # "own" => kept = 0
  /\ pc # "down" /\ args.nodump => kept = 0 /\ prefix = 0
  /\ pc \in {"down", "readRestart", "deleteRestart", "readConf", "loadFile"} => prefix = 0
  /\ live = "RUNNING" \/ dpc # "cycle" => totals >= kept

\* Where the request for a cold restart is, from DoHalt to the next boot.
ColdOK ==
  /\ fRestart # "debug"
  /\ halt = 1 /\ pc = "up" /\ ipc = "run" /\ dpc \notin {"halt", "haltVars"}
       /\ jpc # "writeRestart" => fRestart = "cold"
  /\ jpc = "writeRestart" => request.kind = "COLD"
  /\ wasHalted = 1 /\ pc \in {"down", "readRestart"} => fRestart = "cold"
  /\ wasHalted = 1 /\ ~args.force =>
       /\ pc \notin {"loadFile", "checkTotals", "checkVars", "badDump"}
       /\ pc \in {"deleteRestart", "readConf"} => live = "REBOOT_COLD"
       /\ pc = "bootHalt" => live = "HALT"
       /\ pc = "up" => live \in {"REBOOT_COLD", "HALT"}

\* What the proofs use of dump files.
LEMMA DumpFacts ==
  ASSUME NEW V
  PROVE  /\ NoFile \in Dump(V) /\ BadFile \in Dump(V)
         /\ \A v \in V : Own(v) \in Dump(V)
         /\ \A d \in Dump(V) : d.h \in {"own", "old", Bad, None}
                            /\ (d.h \in {"own", "old"} => d.v \in V)
         /\ NoFile.h = None /\ BadFile.h = Bad
         /\ \A v : Own(v).h = "own" /\ Own(v).v = v
  BY DEF Dump, NoFile, BadFile, Own, Bad, None

\* A document that is loaded into a value keeps it in the type.
LEMMA LoadedType ==
  ASSUME NEW V, NEW d \in Dump(V) \ {BadFile}, NEW v \in V
  PROVE  Loaded(d, v) \in V
  BY DEF Loaded, Dump, NoFile, BadFile, None, Bad

\* The types of the bounds.
LEMMA BoundTypes == 0 \in Totals /\ Totals \subseteq Nat
  BY DataManagerAssumption DEF Totals

\* An absent file as a document.
LEMMA NoFileDoc ==
  \A V : NoFile \in Dump(V) \ {BadFile} /\ BadFile \in Dump(V) /\ NoFile \in Dump(V)
  BY DumpFacts DEF NoFile, BadFile, Bad, None

\* Only an unusable file has the hash Bad.
LEMMA BadHash == \A V : \A d \in Dump(V) : d.h # Bad => d # BadFile
  BY DEF BadFile

LEMMA InitType == Init => TypeOK /\ RequestOK
    <1>1. ASSUME Init PROVE kept \in Totals
    BY <1>1, BoundTypes, DataManagerAssumption
       DEF Init, Dump, NoFile, BadFile, Default
  <1>. QED  BY <1>1, NoFileDoc, BoundTypes, DataManagerAssumption
            DEF Init, TypeOK, RequestOK, NoRequest, Live, Default, Bad, None

\* Every step preserves the types and the request under way.
LEMMA StepType ==
  ASSUME TypeOK, RequestOK, [Next]_vars
  PROVE  TypeOK' /\ RequestOK'
<1>1. ASSUME Start PROVE TypeOK' /\ RequestOK'
  BY <1>1, BoundTypes
     DEF TypeOK, RequestOK, vars, files, memory, threads, status, history, Start,
         Default
<1>2. ASSUME Crash PROVE TypeOK' /\ RequestOK'
  BY <1>2, BoundTypes, NoFileDoc
     DEF TypeOK, RequestOK, vars, files, memory, threads, status, history, Crash,
         ProcessEnds, NoRequest, Live, Default
<1>3. ASSUME Exit PROVE TypeOK' /\ RequestOK'
  BY <1>3, BoundTypes, NoFileDoc
     DEF TypeOK, RequestOK, vars, files, memory, threads, status, history, Exit,
         ProcessEnds, NoRequest, Live, Default
<1>4. ASSUME ReadRestart PROVE TypeOK' /\ RequestOK'
  BY <1>4
     DEF TypeOK, RequestOK, vars, files, memory, threads, status, history,
         ReadRestart, Live
<1>5. ASSUME DeleteRestart PROVE TypeOK' /\ RequestOK'
  BY <1>5
     DEF TypeOK, RequestOK, vars, files, memory, threads, status, history,
         DeleteRestart
<1>6. ASSUME ReadConf PROVE TypeOK' /\ RequestOK'
  BY <1>6
     DEF TypeOK, RequestOK, vars, files, memory, threads, status, history, ReadConf,
         ConfName, BootHalts, HaltBegins, Live
<1>7. ASSUME LoadFile PROVE TypeOK' /\ RequestOK'
  BY <1>7
     DEF TypeOK, RequestOK, vars, files, memory, threads, status, history, LoadFile,
         BootHalts, HaltBegins, Live
<1>8. ASSUME CheckTotals PROVE TypeOK' /\ RequestOK'
  BY <1>8, BoundTypes, NoFileDoc, BadHash
     DEF TypeOK, RequestOK, vars, files, memory, threads, status, history,
         CheckTotals, Live, Default, Bad, None
<1>9. ASSUME BadDumpHalts PROVE TypeOK' /\ RequestOK'
  BY <1>9
     DEF TypeOK, RequestOK, vars, files, memory, threads, status, history,
         BadDumpHalts, BootHalts, HaltBegins, Live
<1>10. ASSUME BootHaltSaved PROVE TypeOK' /\ RequestOK'
  BY <1>10
     DEF TypeOK, RequestOK, vars, files, memory, threads, status, history,
         BootHaltSaved
<1>11. ASSUME Calculate PROVE TypeOK' /\ RequestOK'
  BY <1>11
     DEF TypeOK, RequestOK, vars, files, memory, threads, status, history, Calculate
<1>12. ASSUME CalculateHalts PROVE TypeOK' /\ RequestOK'
  BY <1>12
     DEF TypeOK, RequestOK, vars, files, memory, threads, status, history,
         CalculateHalts, HaltBegins, Live
<1>13. ASSUME SaveVars PROVE TypeOK' /\ RequestOK'
  BY <1>13
     DEF TypeOK, RequestOK, vars, files, memory, threads, status, history, SaveVars
<1>14. ASSUME OpenDump PROVE TypeOK' /\ RequestOK'
  BY <1>14, DumpFacts
     DEF TypeOK, RequestOK, vars, files, memory, threads, status, history, OpenDump
<1>15. ASSUME VarsWritten PROVE TypeOK' /\ RequestOK'
  BY <1>15, DumpFacts
     DEF TypeOK, RequestOK, vars, files, memory, threads, status, history,
         VarsWritten, DumpOf
<1>16. ASSUME VarsFailed PROVE TypeOK' /\ RequestOK'
  BY <1>16
     DEF TypeOK, RequestOK, vars, files, memory, threads, status, history, VarsFailed,
         SaveFails, HaltBegins, Live
<1>17. ASSUME SaveTotals PROVE TypeOK' /\ RequestOK'
  BY <1>17
     DEF TypeOK, RequestOK, vars, files, memory, threads, status, history, SaveTotals
<1>18. ASSUME TotalsWritten PROVE TypeOK' /\ RequestOK'
  BY <1>18, DumpFacts
     DEF TypeOK, RequestOK, vars, files, memory, threads, status, history,
         TotalsWritten, DumpOf, Larger
<1>19. ASSUME TotalsFailed PROVE TypeOK' /\ RequestOK'
  BY <1>19
     DEF TypeOK, RequestOK, vars, files, memory, threads, status, history,
         TotalsFailed, SaveFails, HaltBegins, Live
<1>20. ASSUME DataHaltSaved PROVE TypeOK' /\ RequestOK'
  BY <1>20
     DEF TypeOK, RequestOK, vars, files, memory, threads, status, history,
         DataHaltSaved, Over
<1>21. ASSUME IOThread PROVE TypeOK' /\ RequestOK'
  BY <1>21
     DEF TypeOK, RequestOK, vars, files, memory, threads, status, history, IOThread,
         IOHalts, IOHaltSaved, Over, HaltBegins, Live
<1>22. ASSUME CheckVars PROVE TypeOK' /\ RequestOK'
  <2>1. fVars.h \in {"own", "old", Bad, None} /\ (fVars.h # Bad => fVars # BadFile)
    BY DumpFacts DEF TypeOK
  <2>2. resVars' \in {"ok", "notequal", "notfound", "error"}
    BY <1>22, <2>1 DEF CheckVars, Bad, None
  <2>3. Loaded(docTotals, totals) \in Totals
    BY LoadedType DEF TypeOK
  <2>4. fVars # BadFile => Loaded(fVars, params) \in Params \cup {Default}
    BY LoadedType DEF TypeOK
  <2>. DEFINE Rest == /\ totals' \in Totals /\ docTotals' \in Dump(Totals) \ {BadFile}
                      /\ params' \in Params \cup {Default}
                      /\ docVars' \in Dump(Params \cup {Default}) \ {BadFile}
                      /\ fVars' \in Dump(Params \cup {Default})
                      /\ live' \in Live /\ pc' \in {"up", "badDump"}
  <2>5. ASSUME fVars.h \in {"own", None} PROVE Rest
    <3>1. fVars # BadFile
      BY <2>1, <2>5 DEF Bad, None
    <3>. QED  BY <1>22, <2>3, <2>4, <2>5, <3>1, NoFileDoc
       DEF CheckVars, TypeOK, Live, Bad, None
  <2>6. ASSUME fVars.h = "old" PROVE Rest
    BY <1>22, <2>1, <2>6, NoFileDoc DEF CheckVars, TypeOK, Live, Bad, None
  <2>7. ASSUME fVars.h = Bad PROVE Rest
    BY <1>22, <2>7, NoFileDoc DEF CheckVars, TypeOK, Live, Bad, None
  <2>8. Rest
    BY <2>1, <2>5, <2>6, <2>7
  <2>. QED  BY <1>22, <2>2, <2>8 DEF CheckVars, TypeOK, RequestOK, threads, history
<1>23. ASSUME NEW v \in Params, SetParam(v) PROVE TypeOK' /\ RequestOK'
  BY <1>23 DEF SetParam, TypeOK, RequestOK, files, threads, status, history
<1>24. ASSUME NEW load \in BOOLEAN, ForceLoadTotals(load) PROVE TypeOK' /\ RequestOK'
  <2>1. Loaded(docTotals, totals) \in Totals
    BY LoadedType DEF TypeOK
  <2>. QED  BY <1>24, <2>1, NoFileDoc, BoundTypes
            DEF ForceLoadTotals, TypeOK, RequestOK, threads, Live, Default
<1>25. ASSUME NEW load \in BOOLEAN, ForceLoadVars(load) PROVE TypeOK' /\ RequestOK'
  <2>1. Loaded(docVars, params) \in Params \cup {Default}
    BY LoadedType DEF TypeOK
  <2>. QED  BY <1>25, <2>1, NoFileDoc
            DEF ForceLoadVars, TypeOK, RequestOK, threads, history, Live
<1>26. ASSUME NEW kind \in RestartKinds, NEW c \in Configs \cup {None}, Restart(kind, c)
      PROVE  TypeOK' /\ RequestOK'
  <2>1. request' \in [kind : {"WARM", "COLD", "DEBUG"}, conf : Configs \cup {None}, live : Live]
    BY <1>26, DataManagerAssumption DEF Restart, TypeOK
  <2>2. request'.conf = c /\ request'.live = live
    BY <1>26 DEF Restart
  <2>. QED  BY <1>26, <2>1, <2>2
     DEF Restart, RestartGoesOn, TypeOK, RequestOK, status, memory, history
<1>27. ASSUME RestartWritten PROVE TypeOK' /\ RequestOK'
  BY <1>27
     DEF RestartWritten, RestartGoesOn, Over, TypeOK, RequestOK, status, memory,
         history
<1>28. ASSUME ConfWritten PROVE TypeOK' /\ RequestOK'
  <2>1. request.conf \in Configs
    BY <1>28 DEF ConfWritten, TypeOK, RequestOK
  <2>. QED  BY <1>28, <2>1 DEF ConfWritten, TypeOK, RequestOK, status, memory, history
<1>29. ASSUME UNCHANGED vars PROVE TypeOK' /\ RequestOK'
  BY <1>29 DEF TypeOK, RequestOK, vars, files, memory, threads, status, history
<1>. QED
  BY <1>1, <1>2, <1>3, <1>4, <1>5, <1>6, <1>7, <1>8, <1>9, <1>10, <1>11, <1>12, <1>13,
     <1>14, <1>15, <1>16, <1>17, <1>18, <1>19, <1>20, <1>21, <1>22, <1>23, <1>24, <1>25, <1>26,
     <1>27, <1>28, <1>29
     DEF Next, Boot, DataThread, JSONThread, Operator

\* Type correctness: every variable of the data manager keeps its type through
\* boots, crashes, saves and commands.
THEOREM TypeCorrect == Spec => []TypeOK
<1>1. TypeOK /\ RequestOK /\ [Next]_vars => (TypeOK /\ RequestOK)'
  BY StepType
<1>. QED  BY InitType, <1>1, PTL DEF Spec

\* The boot facts are inductive.
LEMMA StepBoot ==
  ASSUME TypeOK, BootOK, [Next]_vars
  PROVE  BootOK'
<1>1. ASSUME Start PROVE BootOK'
  BY <1>1 DEF BootOK, vars, files, memory, threads, status, history, Start
<1>2. ASSUME Crash \/ Exit PROVE BootOK'
  BY <1>2
     DEF BootOK, vars, files, memory, threads, status, history, Crash, Exit,
         ProcessEnds
<1>3. ASSUME ReadRestart \/ DeleteRestart PROVE BootOK'
  BY <1>3
     DEF BootOK, vars, files, memory, threads, status, history, ReadRestart,
         DeleteRestart
<1>4. ASSUME ReadConf PROVE BootOK'
  BY <1>4
     DEF BootOK, vars, files, memory, threads, status, history, ReadConf, BootHalts,
         HaltBegins
<1>5. ASSUME LoadFile PROVE BootOK'
  BY <1>5
     DEF BootOK, vars, files, memory, threads, status, history, LoadFile, BootHalts,
         HaltBegins
<1>6. ASSUME CheckTotals PROVE BootOK'
  BY <1>6 DEF BootOK, vars, files, memory, threads, status, history, CheckTotals
<1>7. ASSUME CheckVars PROVE BootOK'
  BY <1>7 DEF BootOK, vars, files, memory, threads, status, history, CheckVars
<1>8. ASSUME BadDumpHalts \/ BootHaltSaved PROVE BootOK'
  BY <1>8
     DEF BootOK, vars, files, memory, threads, status, history, BadDumpHalts,
         BootHaltSaved, BootHalts, HaltBegins
<1>9. ASSUME Calculate \/ CalculateHalts PROVE BootOK'
  BY <1>9
     DEF BootOK, vars, files, memory, threads, status, history, Calculate,
         CalculateHalts, HaltBegins
<1>10. ASSUME SaveVars \/ OpenDump \/ SaveTotals PROVE BootOK'
  BY <1>10
     DEF BootOK, vars, files, memory, threads, status, history, SaveVars, OpenDump,
         SaveTotals
<1>11. ASSUME VarsWritten \/ VarsFailed PROVE BootOK'
  BY <1>11
     DEF BootOK, vars, files, memory, threads, status, history, VarsWritten,
         VarsFailed, DumpOf, SaveFails, HaltBegins
<1>12. ASSUME TotalsWritten \/ TotalsFailed PROVE BootOK'
  BY <1>12
     DEF BootOK, vars, files, memory, threads, status, history, TotalsWritten,
         TotalsFailed, DumpOf, SaveFails, HaltBegins
<1>13. ASSUME DataHaltSaved PROVE BootOK'
  BY <1>13
     DEF BootOK, vars, files, memory, threads, status, history, DataHaltSaved, Over
<1>14. ASSUME IOHalts \/ IOHaltSaved PROVE BootOK'
  BY <1>14
     DEF BootOK, vars, files, memory, threads, status, history, IOHalts, IOHaltSaved,
         Over, HaltBegins
<1>15. ASSUME NEW v \in Params, SetParam(v) PROVE BootOK'
  BY <1>15 DEF BootOK, vars, files, memory, threads, status, history, SetParam
<1>16. ASSUME NEW load \in BOOLEAN, ForceLoadTotals(load) \/ ForceLoadVars(load) PROVE BootOK'
  BY <1>16
     DEF BootOK, vars, files, memory, threads, status, history, ForceLoadTotals,
         ForceLoadVars
<1>17. ASSUME NEW kind \in RestartKinds, NEW c \in Configs \cup {None}, Restart(kind, c)
       PROVE  BootOK'
  BY <1>17
     DEF BootOK, vars, files, memory, threads, status, history, Restart, RestartGoesOn
<1>18. ASSUME RestartWritten \/ ConfWritten PROVE BootOK'
  BY <1>18
     DEF BootOK, vars, files, memory, threads, status, history, RestartWritten,
         ConfWritten, RestartGoesOn, Over
<1>19. ASSUME UNCHANGED vars PROVE BootOK'
  BY <1>19 DEF BootOK, vars, files, memory, threads, status, history
<1>. QED
  BY <1>1, <1>2, <1>3, <1>4, <1>5, <1>6, <1>7, <1>8, <1>9, <1>10, <1>11, <1>12, <1>13,
     <1>14, <1>15, <1>16, <1>17, <1>18, <1>19
     DEF Next, Boot, DataThread, IOThread, JSONThread, Operator

\* Numbers of the invariant.
LEMMA KeptTypes ==
  ASSUME TypeOK
  PROVE  kept \in Nat /\ totals \in Nat
         /\ (fTotals.h = "own" => fTotals.v \in Nat)
         /\ fTotals.h \in {"own", "old", Bad, None}
         /\ docTotals.h \in {"own", "old", None}
         /\ (docTotals.h = "own" => docTotals.v \in Nat)
         /\ args.nodump \in BOOLEAN /\ args.force \in BOOLEAN
<1>1. docTotals.h \in {"own", "old", None}
  BY DEF TypeOK, Dump, NoFile, BadFile, Bad, None
<1>2. args.nodump \in BOOLEAN /\ args.force \in BOOLEAN
  BY DataManagerAssumption DEF TypeOK
<1>3. /\ fTotals.h \in {"own", "old", Bad, None}
      /\ (fTotals.h = "own" => fTotals.v \in Totals)
      /\ (docTotals.h = "own" => docTotals.v \in Totals)
  BY DumpFacts DEF TypeOK
<1>. QED  BY <1>1, <1>2, <1>3, BoundTypes DEF TypeOK

\* The whereabouts of the totals, when no dump is one of an older program.
LEMMA StepKept ==
  ASSUME TypeOK, TypeOK', BootOK, KeptOK, [Next]_vars
  PROVE  KeptOK'
<1>1. ASSUME Start PROVE KeptOK'
  BY <1>1, KeptTypes, DumpFacts
     DEF KeptOK, BootOK, vars, files, memory, threads, status, history, Start, Larger,
         Loaded, Default, Bad, None
<1>2. ASSUME Crash \/ Exit PROVE KeptOK'
  BY <1>2, KeptTypes, DumpFacts
     DEF KeptOK, BootOK, vars, files, memory, threads, status, history, Crash, Exit,
         ProcessEnds, Larger, Loaded, Default, Bad, None
<1>3. ASSUME ReadRestart \/ DeleteRestart PROVE KeptOK'
  BY <1>3, KeptTypes, DumpFacts
     DEF KeptOK, BootOK, vars, files, memory, threads, status, history, ReadRestart,
         DeleteRestart, Larger, Loaded, Default, Bad, None
<1>4. ASSUME ReadConf PROVE KeptOK'
  BY <1>4, KeptTypes, DumpFacts
     DEF KeptOK, BootOK, vars, files, memory, threads, status, history, ReadConf,
         BootHalts, HaltBegins, Larger, Loaded, Default, Bad, None
<1>5. ASSUME LoadFile PROVE KeptOK'
  BY <1>5, KeptTypes, DumpFacts
     DEF KeptOK, BootOK, vars, files, memory, threads, status, history, LoadFile,
         BootHalts, HaltBegins, Larger, Loaded, Default, Bad, None
<1>6. ASSUME CheckTotals PROVE KeptOK'
  BY <1>6, KeptTypes, DumpFacts
     DEF KeptOK, BootOK, vars, files, memory, threads, status, history, CheckTotals,
         Larger, Loaded, Default, Bad, None
<1>7. ASSUME CheckVars PROVE KeptOK'
  BY <1>7, KeptTypes, DumpFacts
     DEF KeptOK, BootOK, vars, files, memory, threads, status, history, CheckVars,
         Larger, Loaded, Default, Bad, None
<1>8. ASSUME BadDumpHalts \/ BootHaltSaved PROVE KeptOK'
  BY <1>8, KeptTypes, DumpFacts
     DEF KeptOK, BootOK, vars, files, memory, threads, status, history, BadDumpHalts,
         BootHaltSaved, BootHalts, HaltBegins, Larger, Loaded, Default, Bad, None
<1>9. ASSUME Calculate \/ CalculateHalts PROVE KeptOK'
  BY <1>9, KeptTypes, DumpFacts
     DEF KeptOK, BootOK, vars, files, memory, threads, status, history, Calculate,
         CalculateHalts, HaltBegins, Larger, Loaded, Default, Bad, None
<1>10. ASSUME SaveVars \/ OpenDump \/ SaveTotals PROVE KeptOK'
  BY <1>10, KeptTypes, DumpFacts
     DEF KeptOK, BootOK, vars, files, memory, threads, status, history, SaveVars,
         OpenDump, SaveTotals, Larger, Loaded, Default, Bad, None
<1>11. ASSUME VarsWritten \/ VarsFailed PROVE KeptOK'
  BY <1>11, KeptTypes, DumpFacts
     DEF KeptOK, BootOK, vars, files, memory, threads, status, history, VarsWritten,
         VarsFailed, DumpOf, SaveFails, HaltBegins, Larger, Loaded, Default, Bad, None
<1>12. ASSUME TotalsWritten \/ TotalsFailed PROVE KeptOK'
  BY <1>12, KeptTypes, DumpFacts
     DEF KeptOK, BootOK, vars, files, memory, threads, status, history, TotalsWritten,
         TotalsFailed, DumpOf, SaveFails, HaltBegins, Larger, Loaded, Default, Bad,
         None
<1>13. ASSUME DataHaltSaved PROVE KeptOK'
  BY <1>13, KeptTypes, DumpFacts
     DEF KeptOK, BootOK, vars, files, memory, threads, status, history, DataHaltSaved,
         Over, Larger, Loaded, Default, Bad, None
<1>14. ASSUME IOHalts \/ IOHaltSaved PROVE KeptOK'
  BY <1>14, KeptTypes, DumpFacts
     DEF KeptOK, BootOK, vars, files, memory, threads, status, history, IOHalts,
         IOHaltSaved, Over, HaltBegins, Larger, Loaded, Default, Bad, None
<1>15. ASSUME NEW v \in Params, SetParam(v) PROVE KeptOK'
  BY <1>15, KeptTypes, DumpFacts
     DEF KeptOK, BootOK, vars, files, memory, threads, status, history, SetParam,
         Larger, Loaded, Default, Bad, None
<1>16. ASSUME NEW load \in BOOLEAN, ForceLoadTotals(load) \/ ForceLoadVars(load) PROVE KeptOK'
  BY <1>16, KeptTypes, DumpFacts
     DEF KeptOK, BootOK, vars, files, memory, threads, status, history,
         ForceLoadTotals, ForceLoadVars, Larger, Loaded, Default, Bad, None
<1>17. ASSUME NEW kind \in RestartKinds, NEW c \in Configs \cup {None}, Restart(kind, c)
       PROVE  KeptOK'
  BY <1>17, KeptTypes, DumpFacts
     DEF KeptOK, BootOK, vars, files, memory, threads, status, history, Restart,
         RestartGoesOn, Larger, Loaded, Default, Bad, None
<1>18. ASSUME RestartWritten \/ ConfWritten PROVE KeptOK'
  BY <1>18, KeptTypes, DumpFacts
     DEF KeptOK, BootOK, vars, files, memory, threads, status, history,
         RestartWritten, ConfWritten, RestartGoesOn, Over, Larger, Loaded, Default,
         Bad, None
<1>19. ASSUME UNCHANGED vars PROVE KeptOK'
  BY <1>19 DEF KeptOK, BootOK, vars, files, memory, threads, status, history
<1>. QED
  BY <1>1, <1>2, <1>3, <1>4, <1>5, <1>6, <1>7, <1>8, <1>9, <1>10, <1>11, <1>12, <1>13,
     <1>14, <1>15, <1>16, <1>17, <1>18, <1>19
     DEF Next, Boot, DataThread, IOThread, JSONThread, Operator

\* Restarts that are not debug ones.
LEMMA ColdTypes ==
  ASSUME TypeOK, "DEBUG" \notin RestartKinds
  PROVE  args.force \in BOOLEAN /\ RestartKinds \subseteq {"WARM", "COLD"}
         /\ wasHalted \in {0, 1} /\ halt \in {0, 1}
  BY DataManagerAssumption DEF TypeOK

\* The request for a cold restart, when no debug restart is asked for.
LEMMA StepCold ==
  ASSUME "DEBUG" \notin RestartKinds, TypeOK, BootOK, ColdOK, [Next]_vars
  PROVE  ColdOK'
<1>1. ASSUME Start PROVE ColdOK'
  BY <1>1, ColdTypes
     DEF ColdOK, BootOK, vars, files, memory, threads, status, history, Start,
         NoRequest, None, Bad
<1>2. ASSUME Crash \/ Exit PROVE ColdOK'
  BY <1>2, ColdTypes
     DEF ColdOK, BootOK, vars, files, memory, threads, status, history, Crash, Exit,
         ProcessEnds, NoRequest, None, Bad
<1>3. ASSUME ReadRestart \/ DeleteRestart PROVE ColdOK'
  BY <1>3, ColdTypes
     DEF ColdOK, BootOK, vars, files, memory, threads, status, history, ReadRestart,
         DeleteRestart, NoRequest, None, Bad
<1>4. ASSUME ReadConf PROVE ColdOK'
  BY <1>4, ColdTypes
     DEF ColdOK, BootOK, vars, files, memory, threads, status, history, ReadConf,
         BootHalts, HaltBegins, NoRequest, None, Bad
<1>5. ASSUME LoadFile PROVE ColdOK'
  BY <1>5, ColdTypes
     DEF ColdOK, BootOK, vars, files, memory, threads, status, history, LoadFile,
         BootHalts, HaltBegins, NoRequest, None, Bad
<1>6. ASSUME CheckTotals PROVE ColdOK'
  BY <1>6, ColdTypes
     DEF ColdOK, BootOK, vars, files, memory, threads, status, history, CheckTotals,
         NoRequest, None, Bad
<1>7. ASSUME CheckVars PROVE ColdOK'
  BY <1>7, ColdTypes
     DEF ColdOK, BootOK, vars, files, memory, threads, status, history, CheckVars,
         NoRequest, None, Bad
<1>8. ASSUME BadDumpHalts \/ BootHaltSaved PROVE ColdOK'
  BY <1>8, ColdTypes
     DEF ColdOK, BootOK, vars, files, memory, threads, status, history, BadDumpHalts,
         BootHaltSaved, BootHalts, HaltBegins, NoRequest, None, Bad
<1>9. ASSUME Calculate \/ CalculateHalts PROVE ColdOK'
  BY <1>9, ColdTypes
     DEF ColdOK, BootOK, vars, files, memory, threads, status, history, Calculate,
         CalculateHalts, HaltBegins, NoRequest, None, Bad
<1>10. ASSUME SaveVars \/ OpenDump \/ SaveTotals PROVE ColdOK'
  BY <1>10, ColdTypes
     DEF ColdOK, BootOK, vars, files, memory, threads, status, history, SaveVars,
         OpenDump, SaveTotals, NoRequest, None, Bad
<1>11. ASSUME VarsWritten \/ VarsFailed PROVE ColdOK'
  BY <1>11, ColdTypes
     DEF ColdOK, BootOK, vars, files, memory, threads, status, history, VarsWritten,
         VarsFailed, DumpOf, SaveFails, HaltBegins, NoRequest, None, Bad
<1>12. ASSUME TotalsWritten \/ TotalsFailed PROVE ColdOK'
  BY <1>12, ColdTypes
     DEF ColdOK, BootOK, vars, files, memory, threads, status, history, TotalsWritten,
         TotalsFailed, DumpOf, SaveFails, HaltBegins, NoRequest, None, Bad
<1>13. ASSUME DataHaltSaved PROVE ColdOK'
  BY <1>13, ColdTypes
     DEF ColdOK, BootOK, vars, files, memory, threads, status, history, DataHaltSaved,
         Over, NoRequest, None, Bad
<1>14. ASSUME IOHalts \/ IOHaltSaved PROVE ColdOK'
  BY <1>14, ColdTypes
     DEF ColdOK, BootOK, vars, files, memory, threads, status, history, IOHalts,
         IOHaltSaved, Over, HaltBegins, NoRequest, None, Bad
<1>15. ASSUME NEW v \in Params, SetParam(v) PROVE ColdOK'
  BY <1>15, ColdTypes
     DEF ColdOK, BootOK, vars, files, memory, threads, status, history, SetParam,
         NoRequest, None, Bad
<1>16. ASSUME NEW load \in BOOLEAN, ForceLoadTotals(load) \/ ForceLoadVars(load) PROVE ColdOK'
  BY <1>16, ColdTypes
     DEF ColdOK, BootOK, vars, files, memory, threads, status, history,
         ForceLoadTotals, ForceLoadVars, NoRequest, None, Bad
<1>17. ASSUME NEW kind \in RestartKinds, NEW c \in Configs \cup {None}, Restart(kind, c)
       PROVE  ColdOK'
  BY <1>17, ColdTypes
     DEF ColdOK, BootOK, vars, files, memory, threads, status, history, Restart,
         RestartGoesOn, NoRequest, None, Bad
<1>18. ASSUME RestartWritten \/ ConfWritten PROVE ColdOK'
  BY <1>18, ColdTypes
     DEF ColdOK, BootOK, vars, files, memory, threads, status, history,
         RestartWritten, ConfWritten, RestartGoesOn, Over, NoRequest, None, Bad
<1>19. ASSUME UNCHANGED vars PROVE ColdOK'
  BY <1>19 DEF ColdOK, BootOK, vars, files, memory, threads, status, history
<1>. QED
  BY <1>1, <1>2, <1>3, <1>4, <1>5, <1>6, <1>7, <1>8, <1>9, <1>10, <1>11, <1>12, <1>13,
     <1>14, <1>15, <1>16, <1>17, <1>18, <1>19
     DEF Next, Boot, DataThread, IOThread, JSONThread, Operator

LEMMA InitKept ==
  ASSUME \A d \in InitTotals \cup InitVars : d.h \in {"own", None}, Init
  PROVE  BootOK /\ KeptOK
<1>1. /\ fTotals.h \in {"own", None} /\ fVars.h \in {"own", None}
      /\ (fTotals.h = "own" => fTotals.v >= kept)
      /\ (fTotals.h = None => kept = 0)
  <2>1. fTotals \in Dump(Totals)
    BY DataManagerAssumption DEF Init
  <2>2. fTotals.h = None => fTotals = NoFile
    BY <2>1 DEF Dump, NoFile, BadFile, Bad, None
  <2>3. fTotals.h = "own" => fTotals.v \in Nat
    BY <2>1, DumpFacts, BoundTypes
  <2>. QED  BY <2>2, <2>3 DEF Init, NoFile, Default
<1>. QED  BY <1>1, DumpFacts DEF Init, BootOK, KeptOK, None

LEMMA InitCold == Init => BootOK /\ ColdOK
  BY DEF Init, BootOK, ColdOK, None, NoRequest

\* A running system has at least the totals that were saved, for any number of
\* crashes, restarts and HALTs and any command lines, as long as no dump of an
\* older program is found: loadDumps and saveDataTotals lose nothing unreported.
THEOREM TotalsSafe ==
  ASSUME \A d \in InitTotals \cup InitVars : d.h \in {"own", None}
  PROVE  Spec => []TotalsKept
<1>. DEFINE Inv == TypeOK /\ RequestOK /\ BootOK /\ KeptOK
<1>1. Init => Inv
  BY InitType, InitKept
<1>2. Inv /\ [Next]_vars => Inv'
  BY StepType, StepBoot, StepKept
<1>3. Inv => TotalsKept
  BY DEF KeptOK, TotalsKept
<1>. QED  BY <1>1, <1>2, <1>3, PTL DEF Spec

\* The run after a halted one is in COLD-START or in HALT, however the commands,
\* the IO thread and the data thread wrote FILE_RESTART, as long as no debug
\* restart is asked for: DoHalt's request survives until getConfFile reads it.
THEOREM HaltIsCold ==
  ASSUME "DEBUG" \notin RestartKinds
  PROVE  Spec => []HaltBootsCold
<1>. DEFINE Inv == TypeOK /\ RequestOK /\ BootOK /\ ColdOK
<1>1. Init => Inv
  BY InitType, InitCold
<1>2. Inv /\ [Next]_vars => Inv'
  BY StepType, StepBoot, StepCold
<1>3. Inv => HaltBootsCold
  BY DEF ColdOK, HaltBootsCold
<1>. QED  BY <1>1, <1>2, <1>3, PTL DEF Spec

\* A system that has come to the dumps saves with their prefix, a process that is down
\* has no status yet, and a halted one has the status HALT.
SaveOK ==
  /\ pc \in {"checkTotals", "checkVars"} \/ live \in {"DUMP_TOTALS", "DUMP_VARS", "RUNNING"}
       => args.nodump \/ prefix = 1
  /\ pc = "down" => live = "STARTING"
  /\ halt = 1 => live = "HALT"

\* The facts about saving are inductive.
LEMMA StepSave ==
  ASSUME TypeOK, BootOK, SaveOK, [Next]_vars
  PROVE  SaveOK'
<1>. USE DEF BootOK, SaveOK, vars, files, memory, threads, status, history
<1>1. ASSUME Start PROVE SaveOK'
  BY <1>1 DEF Start
<1>2. ASSUME Crash \/ Exit PROVE SaveOK'
  BY <1>2 DEF Crash, Exit, ProcessEnds
<1>3. ASSUME ReadRestart \/ DeleteRestart PROVE SaveOK'
  BY <1>3 DEF ReadRestart, DeleteRestart
<1>4. ASSUME ReadConf PROVE SaveOK'
  BY <1>4 DEF ReadConf, BootHalts, HaltBegins
<1>5. ASSUME LoadFile PROVE SaveOK'
  BY <1>5 DEF LoadFile, BootHalts, HaltBegins
<1>6. ASSUME CheckTotals PROVE SaveOK'
  BY <1>6 DEF CheckTotals
<1>7. ASSUME CheckVars PROVE SaveOK'
  BY <1>7 DEF CheckVars
<1>8. ASSUME BadDumpHalts \/ BootHaltSaved PROVE SaveOK'
  BY <1>8 DEF BadDumpHalts, BootHaltSaved, BootHalts, HaltBegins
<1>9. ASSUME Calculate \/ CalculateHalts PROVE SaveOK'
  BY <1>9 DEF Calculate, CalculateHalts, HaltBegins
<1>10. ASSUME SaveVars \/ OpenDump \/ SaveTotals PROVE SaveOK'
  BY <1>10 DEF SaveVars, OpenDump, SaveTotals
<1>11. ASSUME VarsWritten \/ VarsFailed PROVE SaveOK'
  BY <1>11 DEF VarsWritten, VarsFailed, SaveFails, HaltBegins
<1>12. ASSUME TotalsWritten \/ TotalsFailed PROVE SaveOK'
  BY <1>12 DEF TotalsWritten, TotalsFailed, SaveFails, HaltBegins
<1>13. ASSUME DataHaltSaved \/ IOHalts \/ IOHaltSaved PROVE SaveOK'
  BY <1>13 DEF DataHaltSaved, IOHalts, IOHaltSaved, HaltBegins
<1>14. ASSUME NEW v \in Params, SetParam(v) PROVE SaveOK'
  BY <1>14 DEF SetParam
<1>15. ASSUME NEW load \in BOOLEAN, ForceLoadTotals(load) \/ ForceLoadVars(load) PROVE SaveOK'
  BY <1>15 DEF ForceLoadTotals, ForceLoadVars
<1>16. ASSUME NEW kind \in RestartKinds, NEW c \in Configs \cup {None}, Restart(kind, c)
       PROVE  SaveOK'
  BY <1>16 DEF Restart, RestartGoesOn
<1>17. ASSUME RestartWritten \/ ConfWritten PROVE SaveOK'
  BY <1>17 DEF RestartWritten, ConfWritten, RestartGoesOn
<1>18. ASSUME UNCHANGED vars PROVE SaveOK'
  BY <1>18
<1>. QED
  BY <1>1, <1>2, <1>3, <1>4, <1>5, <1>6, <1>7, <1>8, <1>9, <1>10, <1>11, <1>12, <1>13,
     <1>14, <1>15, <1>16, <1>17, <1>18
     DEF Next, Boot, DataThread, IOThread, JSONThread, Operator

\* What a step of a running system does to the parameters and their dump.
LEMMA RunningSave ==
  ASSUME TypeOK, BootOK, SaveOK, [Next]_vars, ~args.nodump,
         live = "RUNNING", live' = "RUNNING", SavePending \/ OnDisk
  PROVE  SavePending' \/ OnDisk'
<1>. USE DEF SavePending, OnDisk, files, memory, threads, status, history
<1>1. pc = "up" /\ prefix = 1 /\ halt = 0
  BY DEF BootOK, SaveOK, TypeOK
<1>2. ASSUME DataThread PROVE SavePending' \/ OnDisk'
  <2>1. CASE Calculate
    BY <2>1 DEF Calculate
  <2>2. CASE CalculateHalts
    BY <2>2 DEF CalculateHalts, HaltBegins
  <2>3. CASE SaveVars
    BY <2>3 DEF SaveVars
  <2>4. CASE OpenDump
    BY <2>4 DEF OpenDump
  <2>5. CASE VarsWritten
    BY <1>1, <2>5 DEF VarsWritten, DumpOf
  <2>6. CASE VarsFailed \/ TotalsFailed
    BY <1>1, <2>6 DEF VarsFailed, TotalsFailed, SaveFails, HaltBegins
  <2>7. CASE SaveTotals \/ TotalsWritten \/ DataHaltSaved
    BY <2>7 DEF SaveTotals, TotalsWritten, DataHaltSaved
  <2>. QED  BY <1>2, <2>1, <2>2, <2>3, <2>4, <2>5, <2>6, <2>7 DEF DataThread
<1>3. ASSUME IOThread PROVE SavePending' \/ OnDisk'
  BY <1>3 DEF IOThread, IOHalts, IOHaltSaved, HaltBegins
<1>4. ASSUME NEW v \in Params, SetParam(v) PROVE SavePending' \/ OnDisk'
  BY <1>4 DEF SetParam
<1>5. ASSUME NEW load \in BOOLEAN, ForceLoadTotals(load) \/ ForceLoadVars(load)
      PROVE  SavePending' \/ OnDisk'
  BY <1>5 DEF ForceLoadTotals, ForceLoadVars
<1>6. ASSUME NEW kind \in RestartKinds, NEW c \in Configs \cup {None}, Restart(kind, c)
      PROVE  SavePending' \/ OnDisk'
  BY <1>6 DEF Restart, RestartGoesOn
<1>7. ASSUME RestartWritten \/ ConfWritten PROVE SavePending' \/ OnDisk'
  BY <1>7 DEF RestartWritten, ConfWritten, RestartGoesOn
<1>8. ASSUME Start \/ Crash \/ Exit PROVE FALSE
  BY <1>1, <1>8 DEF Start, Crash, Exit, ProcessEnds
<1>9. ASSUME Boot PROVE FALSE
  BY <1>1, <1>9 DEF Boot, ReadRestart, DeleteRestart, ReadConf, LoadFile, CheckTotals,
                    CheckVars, BadDumpHalts, BootHaltSaved
<1>10. CASE UNCHANGED vars
  BY <1>10 DEF vars
<1>. QED  BY <1>2, <1>3, <1>4, <1>5, <1>6, <1>7, <1>8, <1>9, <1>10 DEF Next, JSONThread, Operator

\* A request to save the parameters is given up for a good dump of them only
\* (rDataManager::Proccesing, saveDataVariables), for any configurations, command lines
\* and dumps, and any number of crashes.
THEOREM SaveIsHeld == Spec => SaveHeld
<1>. DEFINE Inv == TypeOK /\ RequestOK /\ BootOK /\ SaveOK
<1>1. Init => Inv
  <2>1. Init => BootOK /\ SaveOK
    BY DEF Init, BootOK, SaveOK
  <2>. QED  BY <2>1, InitType
<1>2. Inv /\ [Next]_vars => Inv'
  BY StepType, StepBoot, StepSave
<1>3. Inv /\ [Next]_vars =>
        [live = "RUNNING" /\ live' = "RUNNING" /\ ~args.nodump /\ (SavePending \/ OnDisk)
           => SavePending' \/ OnDisk']_vars
  BY RunningSave
<1>. QED  BY <1>1, <1>2, <1>3, PTL DEF Spec, SaveHeld
=============================================================================
