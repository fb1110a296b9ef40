------------------------------ MODULE Upgrader ------------------------------
(***************************************************************************)
(* The upgrader (rtl/uart_sw_upgrader.sv): writes the bytes the UART       *)
(* receives to the RAM, one after the other from address 0, and holds the  *)
(* core in reset from the press of the upgrade button to the next reset.   *)
(***************************************************************************)
EXTENDS Lanes

VARIABLES during_sw_upgrade, be_cnt, uart_ram_wr_en, uart_ram_wr_data, uart_ram_addr,
          uart_ram_we   \* the lane that is written

upgradeVars == <<during_sw_upgrade, be_cnt, uart_ram_wr_en, uart_ram_wr_data,
                 uart_ram_addr, uart_ram_we>>

UpgradeTypeOK == /\ {during_sw_upgrade, uart_ram_wr_en} \subseteq BOOLEAN
                 /\ {be_cnt, uart_ram_we} \subseteq Lane
                 /\ uart_ram_wr_data \in Byte
                 /\ uart_ram_addr \in RamWord

UpgradeInit == /\ during_sw_upgrade = FALSE /\ uart_ram_wr_en = FALSE
               /\ be_cnt = 0 /\ uart_ram_we = 0
               /\ uart_ram_wr_data = 0 /\ uart_ram_addr = 0

(* The lane counter has two bits, so that it wraps after the last lane of  *)
(* its own accord; the comparison with 4 never holds. Variant: the counter *)
(* is wide enough for it to hold.                                          *)
NextLaneWide == IF be_cnt = 4 THEN 0 ELSE be_cnt + 1
NextLane == IF be_cnt = 4 THEN 0 ELSE (be_cnt + 1) % 4

(* The address moves on after the last lane is written. *)
NextWord == IF uart_ram_wr_en /\ uart_ram_we = 3
            THEN (uart_ram_addr + 1) % NRam ELSE uart_ram_addr

UpgradeClock(pressed, uart_rx_valid, uart_rx_data) ==
    /\ during_sw_upgrade' = (during_sw_upgrade \/ pressed)
    /\ be_cnt' = IF uart_rx_valid THEN NextLane ELSE be_cnt
    /\ uart_ram_we' = be_cnt
    /\ uart_ram_wr_data' = IF uart_rx_valid THEN uart_rx_data ELSE 0
    /\ uart_ram_addr' = NextWord
    /\ uart_ram_wr_en' = uart_rx_valid

(* A reset lasts a clock edge or more, so that the lane follows be_cnt.    *)
UpgradeReset == /\ during_sw_upgrade' = FALSE /\ uart_ram_wr_en' = FALSE
                /\ be_cnt' = 0 /\ uart_ram_addr' = 0
                /\ uart_ram_we' = 0 /\ uart_ram_wr_data' = 0

=============================================================================
