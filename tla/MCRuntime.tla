----------------------------- MODULE MCRuntime -----------------------------
(* Two system calls among three exports, and stubs as they are in ntdll    *)
(* and as hooks, other builds and broken code would have them.             *)
EXTENDS Runtime

movR10 == <<76, 139, 209>>
movEax(n) == <<184, n, 0, 0, 0>>
test  == <<246, 4, 37, 8, 195, 254, 15, 1>>     \* operands like ret, syscall
jne   == <<117, 3>>
syscall == <<15, 5>>
int   == <<205, 46>>
ret   == <<195>>

ntdll   == <<movR10, movEax(85), test, jne, syscall, ret, int, ret>>
plain   == <<movR10, movEax(195), syscall, ret>>
hooked  == <<<<233, 195, 0, 0, 0>>, syscall, ret>>
nocall  == <<movR10, movEax(15), ret>>
nonumber == <<movR10, <<184, 255, 255, 255, 255>>, syscall, ret>>
stdcall == <<movEax(85), <<186, 15, 194, 195, 15>>, <<255, 210>>, <<194, 8, 0>>>>

someCalls == <<2, 1>>
someNames == {0, 1, 2}
someStubs == {ntdll, plain, hooked, nocall, nonumber, stdcall}
someLocks == <<"ProcessInfoBlock", "ThreadLocalStorage", "AtExit">>
someCtors == <<"c1", "c2">>
someDtors == <<"d1", "d2">>
=============================================================================
