------------------------------- MODULE MCPmic -------------------------------
(* Small instances of Pmic for TLC: the applications the documentation shows. *)
EXTENDS Pmic

Op(n)      == [name |-> n]
With(n, a) == [name |-> n, arg |-> a]
Volt(r, v) == [name |-> "set_voltage", rail |-> r, arg |-> v]

TwoTasks == {"app", "other"}

\* DEVICE_ID right or wrong; PWR_STATUS in the chip's numbering; power good on
\* all rails or not on BUCK3.
AllShown == [a \in {DEVICE_ID, INT_STS, PWR_STATUS, FAULT_STS, PG_STATUS, ESM_STATUS} |->
               CASE a = DEVICE_ID  -> {{2, 5}, {0, 2}}
                 [] a = PWR_STATUS -> {{1}, {0, 1}}
                 [] a = PG_STATUS  -> {0 .. 7, (0 .. 7) \ {2}}
                 [] OTHER          -> {{}}]

\* The configuration of examples/main.c.
Tda4vm ==
    [mv     |-> [r \in Rail |-> <<3300, 1800, 1200, 1100, 900, 1800, 1200, 3300, 1800>>[r + 1]],
     enable |-> [r \in Rail |-> TRUE],
     \* 2.2 MHz on every buck (bit 3), phases 0 to 4, forced PWM on two (bit 6)
     mode   |-> [r \in Rail |-> <<{3}, {0, 3, 6}, {1, 3, 6}, {0, 1, 3}, {2, 3},
                                 {}, {}, {}, {STEPDOWN}>>[r + 1]],
     sleep  |-> [enabled |-> TRUE, retention |-> TRUE, bucks |-> {2}, ldos |-> {1},
                 wake |-> {0}],
     watchdog |-> TRUE, timeout |-> 30000, esm |-> {0}]

Bring == {Op("init"), Op("probe")}
Apps(app, other) == [t \in TwoTasks |-> IF t = "app" THEN app ELSE other]

Scaling  == Apps(Bring \cup {Volt(2, 1200), Volt(2, 3340), Volt(2, 3341), Op("get_status")},
                 {Volt(2, 1103), [name |-> "get_voltage", rail |-> 2]})
Watching == Apps(Bring \cup {With("watchdog_enable", 30000), With("watchdog_enable", 40000),
                             Op("watchdog_disable"), Op("nvm_crc_check")},
                 {Op("watchdog_pet")})
Sleeping == Apps(Bring \cup {Op("enter_sleep"), With("set_power_state", 3), With("set_power_state", 5),
                             Op("get_power_state")},
                 {Op("exit_sleep")})
Signals  == Apps(Bring \cup {With("enable_interrupts", {1, 2}), With("disable_interrupts", {2}),
                             With("nvm_lock", TRUE)},
                 {Op("get_pending"), With("clear_interrupts", {1})})
Monitor  == Apps(Bring \cup {With("esm_enable", {0}), With("esm_enable", {0, 1}), Op("esm_disable"), Op("esm_reset"),
                             With("configure_sleep", Tda4vm.sleep), With("enable_wake", {0})},
                 {})
Rails    == Apps(Bring \cup {Op("deinit")},
                 {With("enable", 2), With("disable", 2)})
Setting  == Apps(Bring \cup {With("set_config", Tda4vm), Op("deinit")}, {})
Booting  == Apps(Bring \cup {With("boot_sequence", Tda4vm)}, {})

AllDuties == {Scaling, Watching, Sleeping, Signals, Monitor, Rails, Setting, Booting}
BootOnly  == {Booting}
SetOnly   == {Setting}
=============================================================================
