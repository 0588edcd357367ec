------------------------------ MODULE MCDisks ------------------------------
(***************************************************************************)
(* Small instances of Disks for TLC: two volumes.                          *)
(***************************************************************************)
EXTENDS Disks

MyBoot == <<"MyBoot", "BOOTX64">>
Shim   == <<"ubuntu", "shimx64">>
Grub   == <<"ubuntu", "grubx64">>
Kernel == <<"nixos", "kernel">>
Initrd == <<"nixos", "initrd">>

Generation == [kind |-> "NixOs", role |-> "Generation", kernel |-> Kernel,
               initrd |-> Initrd]
Rescue     == [kind |-> "Linux", role |-> "Kernel", kernel |-> Kernel,
               initrd |-> NoPath]

ADisk(files, stubs, bls, bootspecs) ==
  [files |-> files, stubs |-> stubs, bls |-> bls, bootspecs |-> bootspecs]

(* Loaders only, with and without a NixOS whose kernel lies on this volume *)
(* or elsewhere, is an EFI stub or not, and has lost its initrd or not.    *)
LoaderDisks ==
  {ADisk(files, {}, <<>>, <<>>) :
     files \in SUBSET {WindowsLoader, FallbackLoader, Shim, Grub}}
KernelDisks ==
  {ADisk(files \cup {FallbackLoader}, stubs \cap files, bls, bootspecs) :
     files \in {{}, {Kernel}, {Kernel, Initrd}},
     stubs \in {{}, {Kernel}},
     bls \in {<<>>, <<Generation>>, <<Rescue, Generation>>},
     bootspecs \in {<<>>, <<Generation>>}}
(* What `myboot install` leaves: MyBoot in its directory, and the fallback *)
(* loader, which may be another system's.                                  *)
InstalledDisks ==
  {ADisk(files \cup {MyBoot}, {}, <<>>, <<>>) :
     files \in SUBSET {FallbackLoader, Shim}}
SomeDisks == LoaderDisks \cup KernelDisks \cup InstalledDisks

SomeOptions == {<<>>, <<"Linux", "Windows">>}

SomeInstallations == {{FallbackLoader}, {FallbackLoader, MyBoot}, {MyBoot}}
=============================================================================
