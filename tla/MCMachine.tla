----------------------------- MODULE MCMachine -----------------------------
(***************************************************************************)
(* Model-checking instance of Kernel and of Drivers.  At this commit the   *)
(* two do not meet (the kernel creates no driver), so a behaviour is one   *)
(* of the boot hart, with no devices, or one of the drivers under their    *)
(* documented client.                                                      *)
(***************************************************************************)
EXTENDS Kernel, Drivers

MCMessage == <<1, 2>>

KernelOff == /\ KernelAt("off")
             /\ machine = CHOOSE m \in Machines : TRUE
             /\ blocks = 0 /\ irqs = 0

Init == \/ KernelInit /\ DriversAt("off")
        \/ KernelOff /\ DriversInit

Next == \/ KernelNext /\ UNCHANGED driverVars
        \/ DriversNext /\ UNCHANGED kernelVars

Spec == /\ Init /\ [][Next]_<<kernelVars, driverVars>>
        /\ KernelFairness /\ DriversFairness
=============================================================================
