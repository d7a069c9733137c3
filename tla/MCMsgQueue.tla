----------------------------- MODULE MCMsgQueue -----------------------------
(* Value sets for the message queue: the board's two handlers that add,    *)
(* with their NVIC priorities, and the calls they add.  SysTick adds what  *)
(* is registered with hm_timer_register for the main loop (main.c:98,110), *)
(* the Ethernet handler the reboot (hm_cmd_execute.c:248).                 *)
EXTENDS MsgQueue

BoardPrio == [p \in Producers |-> IF p = "SysTick" THEN 2 ELSE 1]

BoardSends ==
  [p \in Producers |->
     IF p = "SysTick"
     THEN {[func |-> "netwk_ck", param |-> "p1"],
           [func |-> "hm_iwdg_feed", param |-> "p2"]}
     ELSE {[func |-> "hm_cmd_reboot_ck", param |-> "p3"]}]
=============================================================================
