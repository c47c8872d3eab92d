----------------------------- MODULE MCModules -----------------------------
(* Modules on a small instance: whowas may be reached by two names.        *)
EXTENDS Modules

MCFiles == {"insmod.so", "rmmod.so", "restart.so", "whowas.so", "./whowas.so"}
MCLibrary ==
    [f \in MCFiles |->
        CASE f = "insmod.so" -> "insmod" [] f = "rmmod.so" -> "rmmod"
          [] f = "restart.so" -> "restart" [] OTHER -> "whowas"]
MCBoot == <<"insmod.so", "rmmod.so", "whowas.so", "rmmod.so", "restart.so">>
=============================================================================
