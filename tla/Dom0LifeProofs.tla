--------------------------- MODULE Dom0LifeProofs ---------------------------
(***************************************************************************)
(* Proofs about Dom0Life, for any containers, any amount of work and any   *)
(* faults.                                                                 *)
(***************************************************************************)
EXTENDS Dom0Life, TLAPS

\* Where a reload is.  Between its first and its last command the snapshot that
\* was asked for is either still there or in the volume, and nothing is asked
\* for any more when dom0 starts.
ReloadInv ==
  /\ essential \in {"delete", "snapshot"} => need \in snaps
  /\ essential = "autostart" => need \notin snaps
  /\ need \in snaps => wanted = need
  /\ dom0 # "off" /\ wanted # None => need \in snaps
  /\ ~failed =>
       /\ volume = None => need \in snaps
       /\ essential = "snapshot" => volume = None
       /\ essential \notin {"off", "mounted", "delete", "snapshot"} =>
            volume # None
       /\ essential \in {"drop", "unlist", "unask"} =>
            volume = need /\ wanted = need
       /\ wanted \in {None, volume} \/ need \in snaps

\* The shutdown dom0 has a job for was asked for, unless essential sent it.
AskedInv ==
  orderly =>
    /\ pending # "none" => \E p \in Places : Asked(p, pending)
    /\ pending = "none" /\ target # "none" =>
         \E p \in Places : Asked(p, target)

\* What runs without dom0, or while it goes down.
StoppedInv ==
  orderly =>
    /\ hand = NoHand
    /\ dom0 \in {"off", "notify", "tell", "end"} => running = {}
    /\ dom0 = "stop" => running \subseteq todo

LifeInv == LifeTypeOK /\ ReloadInv /\ AskedInv /\ StoppedInv

---------------------------------------------------------------------------
(* Type correctness                                                        *)

LEMMA TypeInit == Init => LifeTypeOK
<1> SUFFICES ASSUME Init PROVE LifeTypeOK
  OBVIOUS
<1>1. volume \in Contents /\ made \in Contents
  BY LifeAssumption DEF Init, Contents
<1>2. hand \in Hands /\ hand = <<"none", {}>>
  BY DEF Init, Hands, NoHand
<1>3. need \in 0..made /\ snaps \subseteq 1..made /\ listed \subseteq 1..made
  BY DEF Init, None
<1>4. asked \subseteq Places \X Kinds /\ running \subseteq Containers /\ todo \subseteq Cubes
  BY DEF Init
<1>5. /\ essential \in BootSteps /\ essential \notin {"down", "waiting", "hung"}
      /\ pending = "none" /\ dom0 = "off" /\ target = "none" /\ todo = {}
      /\ lock \in BOOLEAN /\ failed \in BOOLEAN /\ orderly \in BOOLEAN
      /\ wanted = None
  BY DEF Init, BootSteps
<1> QED
  BY <1>1, <1>2, <1>3, <1>4, <1>5 DEF LifeTypeOK, NoHand

LEMMA TypeNext ==
  ASSUME LifeTypeOK, [Next]_vars
  PROVE  LifeTypeOK'
<1> USE LifeAssumption
    DEF LifeTypeOK, None, Contents, Kinds, Places, BootSteps, Cubes, Hands,
        NoHand, store, machine, system
<1>1. CASE Reload
  BY <1>1 DEF Reload, Booting
<1>2. CASE DeleteVolume
  BY <1>2 DEF DeleteVolume, Booting
<1>3. CASE MakeVolume
  BY <1>3 DEF MakeVolume, Booting
<1>4. CASE DropSnapshot
  BY <1>4 DEF DropSnapshot, Booting
<1>5. CASE Unlist
  BY <1>5 DEF Unlist, Booting
<1>6. CASE Unask
  BY <1>6 DEF Unask, Booting
<1>7. CASE DeleteVolumeFails
  BY <1>7 DEF DeleteVolumeFails, CommandFails, Booting
<1>8. CASE MakeVolumeFails
  BY <1>8 DEF MakeVolumeFails, CommandFails, Booting
<1>9. CASE DropSnapshotFails
  BY <1>9 DEF DropSnapshotFails, CommandFails, Booting
<1>10. CASE Autostart
  BY <1>10 DEF Autostart
<1>11. CASE TellDom0
  BY <1>11 DEF TellDom0, ShutDown
<1>12. CASE GoDown
  BY <1>12 DEF GoDown, Off
<1>13. ASSUME NEW c \in Containers, StartOne(c) PROVE LifeTypeOK'
  BY <1>13 DEF StartOne
<1>14. CASE Started
  BY <1>14 DEF Started
<1>15. ASSUME NEW c \in Cubes, StopOne(c) PROVE LifeTypeOK'
  BY <1>15 DEF StopOne
<1>16. CASE Stopped
  BY <1>16 DEF Stopped
<1>17. CASE Notify
  BY <1>17 DEF Notify
<1>18. CASE TellEssential
  BY <1>18 DEF TellEssential, Hang
<1>19. CASE TimesOut
  BY <1>19 DEF TimesOut
<1>20. CASE Ended
  BY <1>20 DEF Ended
<1>21. CASE Work
  BY <1>21 DEF Work
<1>22. CASE TakeSnapshot
  BY <1>22 DEF TakeSnapshot
<1>23. CASE AskReload
  BY <1>23 DEF AskReload
<1>24. ASSUME NEW c \in Containers, StartContainer(c) PROVE LifeTypeOK'
  BY <1>24 DEF StartContainer
<1>25. ASSUME NEW kind \in Kinds, ShutDownDom0(kind) PROVE LifeTypeOK'
  BY <1>25 DEF ShutDownDom0, ShutDown
<1>26. ASSUME NEW kind \in Kinds, ShutDownEssential(kind) PROVE LifeTypeOK'
  BY <1>26 DEF ShutDownEssential
<1>27. CASE Restart
  BY <1>27 DEF Restart
<1>28. CASE RestartStops
  BY <1>28 DEF RestartStops, ShutDown
<1>29. CASE RestartUnlocks
  <2>1. hand # NoHand /\ hand' # NoHand /\ hand' \in Hands
    BY <1>29 DEF RestartUnlocks
  <2>2. lock' \in BOOLEAN /\ UNCHANGED <<store, machine, dom0, target, todo, running,
                                       asked, orderly>>
    BY <1>29 DEF RestartUnlocks
  <2> HIDE DEF Hands, NoHand, Kinds, Places, BootSteps, Cubes
  <2> QED
    BY <2>1, <2>2
<1>30. CASE RestartStarts
  <2>1. hand' \in Hands /\ hand' = <<"none", {}>>
    BY <1>30 DEF RestartStarts
  <2>2. running' \subseteq Containers /\ lock' \in BOOLEAN
    BY <1>30 DEF RestartStarts
  <2> QED
    BY <1>30, <2>1, <2>2 DEF RestartStarts
<1>31. CASE StopAutostart
  BY <1>31 DEF StopAutostart
<1>32. CASE PowerLoss
  BY <1>32 DEF PowerLoss, Off
<1>33. CASE PowerOn
  BY <1>33 DEF PowerOn
<1>34. CASE UNCHANGED vars
  BY <1>34 DEF vars
<1> QED
  BY <1>1, <1>2, <1>3, <1>4, <1>5, <1>6, <1>7, <1>8, <1>9, <1>10,
     <1>11, <1>12, <1>13, <1>14, <1>15, <1>16, <1>17, <1>18, <1>19,
     <1>20, <1>21, <1>22, <1>23, <1>24, <1>25, <1>26, <1>27, <1>28,
     <1>29, <1>30, <1>31, <1>32, <1>33, <1>34
  DEF Next, Essential, Dom0

---------------------------------------------------------------------------
(* The reload                                                              *)

LEMMA ReloadNext ==
  ASSUME LifeTypeOK, ReloadInv, [Next]_vars
  PROVE  ReloadInv'
<1> USE LifeAssumption
    DEF LifeTypeOK, ReloadInv, None, Contents, BootSteps, store, machine,
        system
<1>1. CASE Reload
  BY <1>1 DEF Reload, Booting
<1>2. CASE DeleteVolume
  BY <1>2 DEF DeleteVolume, Booting
<1>3. CASE MakeVolume
  BY <1>3 DEF MakeVolume, Booting
<1>4. CASE DropSnapshot
  BY <1>4 DEF DropSnapshot, Booting
<1>5. CASE Unlist
  BY <1>5 DEF Unlist, Booting
<1>6. CASE Unask
  BY <1>6 DEF Unask, Booting
<1>7. CASE DeleteVolumeFails
  BY <1>7 DEF DeleteVolumeFails, CommandFails, Booting
<1>8. CASE MakeVolumeFails
  BY <1>8 DEF MakeVolumeFails, CommandFails, Booting
<1>9. CASE DropSnapshotFails
  BY <1>9 DEF DropSnapshotFails, CommandFails, Booting
<1>10. CASE Autostart
  BY <1>10 DEF Autostart
<1>11. CASE TellDom0
  BY <1>11 DEF TellDom0, ShutDown
<1>12. CASE GoDown
  BY <1>12 DEF GoDown, Off
<1>13. ASSUME NEW c \in Containers, StartOne(c) PROVE ReloadInv'
  BY <1>13 DEF StartOne
<1>14. CASE Started
  BY <1>14 DEF Started
<1>15. ASSUME NEW c \in Cubes, StopOne(c) PROVE ReloadInv'
  BY <1>15 DEF StopOne
<1>16. CASE Stopped
  BY <1>16 DEF Stopped
<1>17. CASE Notify
  BY <1>17 DEF Notify
<1>18. CASE TellEssential
  BY <1>18 DEF TellEssential, Hang
<1>19. CASE TimesOut
  BY <1>19 DEF TimesOut
<1>20. CASE Ended
  BY <1>20 DEF Ended
<1>21. CASE Work
  BY <1>21 DEF Work
<1>22. CASE TakeSnapshot
  BY <1>22 DEF TakeSnapshot
<1>23. CASE AskReload
  BY <1>23 DEF AskReload
<1>24. ASSUME NEW c \in Containers, StartContainer(c) PROVE ReloadInv'
  BY <1>24 DEF StartContainer
<1>25. ASSUME NEW kind \in Kinds, ShutDownDom0(kind) PROVE ReloadInv'
  BY <1>25 DEF ShutDownDom0, ShutDown
<1>26. ASSUME NEW kind \in Kinds, ShutDownEssential(kind) PROVE ReloadInv'
  BY <1>26 DEF ShutDownEssential
<1>27. CASE Restart
  BY <1>27 DEF Restart
<1>28. CASE RestartStops
  BY <1>28 DEF RestartStops, ShutDown
<1>29. CASE RestartUnlocks
  BY <1>29 DEF RestartUnlocks
<1>30. CASE RestartStarts
  BY <1>30 DEF RestartStarts
<1>31. CASE StopAutostart
  BY <1>31 DEF StopAutostart
<1>32. CASE PowerLoss
  BY <1>32 DEF PowerLoss, Off
<1>33. CASE PowerOn
  BY <1>33 DEF PowerOn
<1>34. CASE UNCHANGED vars
  BY <1>34 DEF vars
<1> QED
  BY <1>1, <1>2, <1>3, <1>4, <1>5, <1>6, <1>7, <1>8, <1>9, <1>10,
     <1>11, <1>12, <1>13, <1>14, <1>15, <1>16, <1>17, <1>18, <1>19,
     <1>20, <1>21, <1>22, <1>23, <1>24, <1>25, <1>26, <1>27, <1>28,
     <1>29, <1>30, <1>31, <1>32, <1>33, <1>34
  DEF Next, Essential, Dom0

---------------------------------------------------------------------------
(* The shutdown                                                            *)

LEMMA AskedNext ==
  ASSUME LifeTypeOK, AskedInv, StoppedInv, [Next]_vars
  PROVE  AskedInv'
<1> USE DEF LifeTypeOK, AskedInv, Asked, Places, Kinds, store, machine, system
<1>1. CASE Reload
  BY <1>1 DEF Reload, Booting
<1>2. CASE DeleteVolume
  BY <1>2 DEF DeleteVolume, Booting
<1>3. CASE MakeVolume
  BY <1>3 DEF MakeVolume, Booting
<1>4. CASE DropSnapshot
  BY <1>4 DEF DropSnapshot, Booting
<1>5. CASE Unlist
  BY <1>5 DEF Unlist, Booting
<1>6. CASE Unask
  BY <1>6 DEF Unask, Booting
<1>7. CASE DeleteVolumeFails
  BY <1>7 DEF DeleteVolumeFails, CommandFails, Booting
<1>8. CASE MakeVolumeFails
  BY <1>8 DEF MakeVolumeFails, CommandFails, Booting
<1>9. CASE DropSnapshotFails
  BY <1>9 DEF DropSnapshotFails, CommandFails, Booting
<1>10. CASE Autostart
  BY <1>10 DEF Autostart
<1>11. CASE TellDom0
  BY <1>11 DEF TellDom0, ShutDown
<1>12. CASE GoDown
  BY <1>12 DEF GoDown, Off
<1>13. ASSUME NEW c \in Containers, StartOne(c) PROVE AskedInv'
  BY <1>13 DEF StartOne
<1>14. CASE Started
  BY <1>14 DEF Started
<1>15. ASSUME NEW c \in Cubes, StopOne(c) PROVE AskedInv'
  BY <1>15 DEF StopOne
<1>16. CASE Stopped
  BY <1>16 DEF Stopped
<1>17. CASE Notify
  BY <1>17 DEF Notify
<1>18. CASE TellEssential
  BY <1>18 DEF TellEssential, Hang
<1>19. CASE TimesOut
  BY <1>19 DEF TimesOut
<1>20. CASE Ended
  BY <1>20 DEF Ended
<1>21. CASE Work
  BY <1>21 DEF Work
<1>22. CASE TakeSnapshot
  BY <1>22 DEF TakeSnapshot
<1>23. CASE AskReload
  BY <1>23 DEF AskReload
<1>24. ASSUME NEW c \in Containers, StartContainer(c) PROVE AskedInv'
  BY <1>24 DEF StartContainer
<1>25. ASSUME NEW kind \in Kinds, ShutDownDom0(kind) PROVE AskedInv'
  BY <1>25 DEF ShutDownDom0, ShutDown
<1>26. ASSUME NEW kind \in Kinds, ShutDownEssential(kind) PROVE AskedInv'
  BY <1>26 DEF ShutDownEssential
<1>27. CASE Restart
  BY <1>27 DEF Restart
<1>28. CASE RestartStops
  <2>1. ~orderly
    BY <1>28 DEF RestartStops, NoHand, StoppedInv
  <2>2. orderly' = orderly
    BY <1>28 DEF RestartStops
  <2> QED
    BY <2>1, <2>2
<1>29. CASE RestartUnlocks
  BY <1>29 DEF RestartUnlocks
<1>30. CASE RestartStarts
  BY <1>30 DEF RestartStarts
<1>31. CASE StopAutostart
  BY <1>31 DEF StopAutostart
<1>32. CASE PowerLoss
  BY <1>32 DEF PowerLoss, Off
<1>33. CASE PowerOn
  BY <1>33 DEF PowerOn
<1>34. CASE UNCHANGED vars
  BY <1>34 DEF vars
<1> QED
  BY <1>1, <1>2, <1>3, <1>4, <1>5, <1>6, <1>7, <1>8, <1>9, <1>10,
     <1>11, <1>12, <1>13, <1>14, <1>15, <1>16, <1>17, <1>18, <1>19,
     <1>20, <1>21, <1>22, <1>23, <1>24, <1>25, <1>26, <1>27, <1>28,
     <1>29, <1>30, <1>31, <1>32, <1>33, <1>34
  DEF Next, Essential, Dom0

LEMMA StoppedNext ==
  ASSUME LifeTypeOK, StoppedInv, [Next]_vars
  PROVE  StoppedInv'
<1> USE LifeAssumption
    DEF LifeTypeOK, StoppedInv, NoHand, Cubes, BootSteps, store, machine,
        system
<1>1. CASE Reload
  BY <1>1 DEF Reload, Booting
<1>2. CASE DeleteVolume
  BY <1>2 DEF DeleteVolume, Booting
<1>3. CASE MakeVolume
  BY <1>3 DEF MakeVolume, Booting
<1>4. CASE DropSnapshot
  BY <1>4 DEF DropSnapshot, Booting
<1>5. CASE Unlist
  BY <1>5 DEF Unlist, Booting
<1>6. CASE Unask
  BY <1>6 DEF Unask, Booting
<1>7. CASE DeleteVolumeFails
  BY <1>7 DEF DeleteVolumeFails, CommandFails, Booting
<1>8. CASE MakeVolumeFails
  BY <1>8 DEF MakeVolumeFails, CommandFails, Booting
<1>9. CASE DropSnapshotFails
  BY <1>9 DEF DropSnapshotFails, CommandFails, Booting
<1>10. CASE Autostart
  BY <1>10 DEF Autostart
<1>11. CASE TellDom0
  BY <1>11 DEF TellDom0, ShutDown
<1>12. CASE GoDown
  BY <1>12 DEF GoDown, Off
<1>13. ASSUME NEW c \in Containers, StartOne(c) PROVE StoppedInv'
  BY <1>13 DEF StartOne
<1>14. CASE Started
  BY <1>14 DEF Started
<1>15. ASSUME NEW c \in Cubes, StopOne(c) PROVE StoppedInv'
  BY <1>15 DEF StopOne
<1>16. CASE Stopped
  BY <1>16 DEF Stopped
<1>17. CASE Notify
  BY <1>17 DEF Notify
<1>18. CASE TellEssential
  BY <1>18 DEF TellEssential, Hang
<1>19. CASE TimesOut
  BY <1>19 DEF TimesOut
<1>20. CASE Ended
  BY <1>20 DEF Ended
<1>21. CASE Work
  BY <1>21 DEF Work
<1>22. CASE TakeSnapshot
  BY <1>22 DEF TakeSnapshot
<1>23. CASE AskReload
  BY <1>23 DEF AskReload
<1>24. ASSUME NEW c \in Containers, StartContainer(c) PROVE StoppedInv'
  BY <1>24 DEF StartContainer
<1>25. ASSUME NEW kind \in Kinds, ShutDownDom0(kind) PROVE StoppedInv'
  BY <1>25 DEF ShutDownDom0, ShutDown
<1>26. ASSUME NEW kind \in Kinds, ShutDownEssential(kind) PROVE StoppedInv'
  BY <1>26 DEF ShutDownEssential
<1>27. CASE Restart
  BY <1>27 DEF Restart
<1>28. CASE RestartStops
  BY <1>28 DEF RestartStops, ShutDown
<1>29. CASE RestartUnlocks
  BY <1>29 DEF RestartUnlocks
<1>30. CASE RestartStarts
  BY <1>30 DEF RestartStarts
<1>31. CASE StopAutostart
  BY <1>31 DEF StopAutostart
<1>32. CASE PowerLoss
  BY <1>32 DEF PowerLoss, Off
<1>33. CASE PowerOn
  BY <1>33 DEF PowerOn
<1>34. CASE UNCHANGED vars
  BY <1>34 DEF vars
<1> QED
  BY <1>1, <1>2, <1>3, <1>4, <1>5, <1>6, <1>7, <1>8, <1>9, <1>10,
     <1>11, <1>12, <1>13, <1>14, <1>15, <1>16, <1>17, <1>18, <1>19,
     <1>20, <1>21, <1>22, <1>23, <1>24, <1>25, <1>26, <1>27, <1>28,
     <1>29, <1>30, <1>31, <1>32, <1>33, <1>34
  DEF Next, Essential, Dom0

---------------------------------------------------------------------------
(* The invariant and what follows from it                                  *)

LEMMA LifeInit == Init => LifeInv
<1> SUFFICES ASSUME Init PROVE LifeInv
  OBVIOUS
<1>1. LifeTypeOK
  BY TypeInit
<1>2. ReloadInv
  BY LifeAssumption DEF Init, ReloadInv, None
<1>3. AskedInv /\ StoppedInv
  BY DEF Init, AskedInv, StoppedInv
<1> QED
  BY <1>1, <1>2, <1>3 DEF LifeInv

LEMMA LifeNext == LifeInv /\ [Next]_vars => LifeInv'
  BY TypeNext, ReloadNext, AskedNext, StoppedNext DEF LifeInv

LEMMA LifeInvariant == Spec => []LifeInv
  BY LifeInit, LifeNext, PTL DEF Spec

\* Type correctness: the jobs of the two systems are there exactly while these
\* go down, and dom0 runs nowhere but in an essential that does.
THEOREM LifeTypeCorrect == Spec => []LifeTypeOK
<1>1. LifeInv => LifeTypeOK
  BY DEF LifeInv
<1> QED
  BY <1>1, LifeInvariant, PTL

\* However often the power fails during a reload, the volume of dom0 is there
\* when essential starts it, unless a btrfs command failed
\* (reload-dom0-snapshot:19-23): while there is none, the request and its
\* snapshot are still there, and the next boot takes the reload up again.
THEOREM Dom0AlwaysStartable == Spec => []Dom0Startable
<1>1. LifeInv => Dom0Startable
  BY DEF LifeInv, ReloadInv, Dom0Startable, None, BootSteps
<1> QED
  BY <1>1, LifeInvariant, PTL

\* The machine goes down in a way somebody asked for, in dom0 or in essential
\* (container-shutdown-notifier:3-16): the notifier of a dom0 that essential
\* itself told to stop sends nothing back.
THEOREM DownOnlyAsAsked == Spec => []DownAsAsked
<1>1. LifeInv => DownAsAsked
  BY DEF LifeInv, AskedInv, DownAsAsked
<1> QED
  BY <1>1, LifeInvariant, PTL

\* dom0 is put back only by a reload that was asked for since it last ran, and
\* such a reload is complete when it is started next
\* (reload-dom0-snapshot:7-23).
THEOREM ReloadsAsAsked == Spec => StartsAsAsked
<1> DEFINE
  Put == /\ volume' # volume /\ dom0 = "off" => wanted # None
         /\ essential = "autostart" /\ essential' = "up" /\ ~failed
              => wanted \in {None, volume}
<1>1. LifeInv /\ [Next]_vars => [Put]_vars
  <2> SUFFICES ASSUME LifeInv, Next PROVE Put
    OBVIOUS
  <2>1. volume' # volume /\ dom0 = "off" => wanted # None
    <3>1. ASSUME volume' # volume, dom0 = "off" PROVE DeleteVolume \/ MakeVolume
      BY <3>1
      DEF Next, Essential, Dom0, Reload, DropSnapshot, Unlist, Unask, Booting,
          DeleteVolumeFails, MakeVolumeFails, DropSnapshotFails, CommandFails,
          Autostart, TellDom0, GoDown, Off, StartOne, Started, StopOne,
          Stopped, Notify, TellEssential, Hang, TimesOut, Ended, Work, TakeSnapshot,
          AskReload, StartContainer, ShutDownDom0, ShutDownEssential, Restart,
          RestartStops, RestartUnlocks, RestartStarts, StopAutostart,
          PowerLoss, PowerOn, store
    <3>2. DeleteVolume \/ MakeVolume => wanted = need /\ need \in 1..made
      BY DEF LifeInv, LifeTypeOK, ReloadInv, DeleteVolume, MakeVolume, Booting
    <3> QED
      BY <3>1, <3>2 DEF None
  <2>2. essential = "autostart" /\ ~failed => wanted \in {None, volume}
    BY DEF LifeInv, ReloadInv
  <2> QED
    BY <2>1, <2>2
<1> QED
  BY <1>1, LifeInvariant, PTL DEF Spec, StartsAsAsked

\* Essential, which runs what is left of the containers, goes down after every
\* one of them was stopped, unless the power failed, something timed out or
\* somebody stopped a service by hand (essential-autostart:16-18,
\* dom0-containers:63).
THEOREM ContainersStoppedFirst == Spec => ContainersStopFirst
<1>1. LifeInv => (GoDown /\ orderly => running = {})
  BY DEF LifeInv, StoppedInv, GoDown
<1>2. LifeInv /\ [Next]_vars => [GoDown /\ orderly => running = {}]_vars
  BY <1>1
<1> QED
  BY <1>2, LifeInvariant, PTL DEF Spec, ContainersStopFirst
=============================================================================
