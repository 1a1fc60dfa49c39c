----------------------------- MODULE MCDevices -------------------------------
(***************************************************************************)
(* The devices for model checking: the serial port with the input buffer,  *)
(* the disk, the console, the keyboard and the timer.                      *)
(* They share no state: a behaviour exercises one of them.                 *)
(***************************************************************************)
EXTENDS SerialInput, Disk, Console, Timer

CONSTANTS Keys, MaxKeyEvents

ASSUME DevicesAssumption ==
    /\ NoHolder \notin Printer /\ COL_CNT > 0 /\ ROW_CNT > 0 /\ Tab > 0
    /\ StartBit >= EndBit /\ Width > StartBit /\ EndBit > 1

VARIABLES state_var, caps_lock, key_cnt, typed, events,
          part         \* the component that is exercised

keyboardVars == <<state_var, caps_lock, key_cnt, typed, events>>

K == INSTANCE Keyboard

MCMessages == {<<"a", "LF">>, <<"HT", "a">>, <<"FF", "BS", "CR">>}

MCRequests ==
    {<<-1, 0>>, <<0, 0>>, <<2, 0>>, <<1, 1000>>, <<9, 1000>>, <<15, 1000>>, <<-3, 1000>>,
     <<700, 1000000>>, <<3000, 1000000>>, <<900, 1000000000>>}

some(S) == CHOOSE x \in S : TRUE

\* A component that is not exercised has one initial state.
DevicesInit ==
    /\ part \in {"serial", "disk", "console", "keyboard", "timer"}
    /\ SerialInit /\ DiskInit /\ ConsoleInit /\ K!KeyboardInit /\ TimerInit
    /\ \/ part = "disk"
       \/ <<device, latch>> = <<some(Sector), some(Data)>> /\ Range(sec_no) = {device} /\ Range(media) = {latch}
    /\ part = "console" \/ vga.found = 0
    /\ part = "timer" \/ <<TIMER_FREQ, rate>> = <<some(Freqs), some(Rates)>>

DevicesNext ==
    /\ UNCHANGED part
    /\ part # "serial" => UNCHANGED vars
    /\ part # "disk" => UNCHANGED diskVars
    /\ part # "console" => UNCHANGED consoleVars
    /\ part # "keyboard" => UNCHANGED keyboardVars
    /\ part # "timer" => UNCHANGED timerVars
    /\ \/ part = "serial" /\ SerialNext
       \/ part = "disk" /\ DiskNext
       \/ part = "console" /\ ConsoleNext
       \/ part = "keyboard" /\ K!KeyboardNext
       \/ part = "timer" /\ TimerNext

DevicesSpec ==
    /\ DevicesInit
    /\ [][DevicesNext]_<<vars, diskVars, consoleVars, keyboardVars, timerVars, part>>
    /\ SerialFairness /\ DiskFairness

\* The property of the keyboard, under its name.
KeysExact == K!KeysExact

=============================================================================
