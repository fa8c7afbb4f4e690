----------------------------- MODULE DriverProbes -----------------------------
(***************************************************************************)
(* The probes of scripts/capability_probe.py that call nvcuda.dll and      *)
(* nvml.dll through ctypes, call by call.  An operator has the name of its *)
(* runner, without the "run_" prefix.  sm is the compute capability the    *)
(* backend advertises, 80 or 90: below 80 the fixed .target sm_80 modules  *)
(* of these probes are refused by a correct driver.                        *)
(* A kernel's uses are what must still exist when the device runs it.      *)
(***************************************************************************)
EXTENDS ProbeSteps

(* cuInit, cuDeviceGet and the current context, or one made for this probe.*)
cuInit == <<ck({}, Nothing), ck({}, Nothing)>>
CurrentContext == <<ck({}, Nothing), ck({}, Gain("ctx", {}))>>
ReleaseContext == Release("ctx", {})

Load(m) == ck({"ctx"}, Gain(m, {}))
GetFunction(m) == ck({"ctx", m}, Nothing)
Alloc(b, left) == ck({"ctx"}, Gain(b, left))
StreamCreate(s) == ck({"ctx"}, Gain(s, {}))
Unload(m) == Release(m, {"ctx"})
(* Copies; what is read back goes into a host variable of its own.         *)
HtoD(b, label) == ck({"ctx", b}, Store(b, label, {}, {"wrong", "uncopied"}))
DtoHEffect(h, b, label) == Store(h, label, {<<b, label>>}, {"wrong"})
DtoH(h, b, label) == ck({"ctx", b}, DtoHEffect(h, b, label))
Wait(s) == ck({"ctx"} \union ({s} \ {"default"}), Drain(s))

-------------------------------------------------------------------------------
driver_pci_bus_id ==
  << Ask({"ok"}, {}, Nothing), Then({}, Nothing),
     Then({}, Store("name", "format", {}, {"wrong", "dropped"})),
     Check("name", "format", {}) >>

driver_api ==
  << ck({}, Nothing), ck({}, Nothing),
     ck({}, Store("count", "some", {}, {"wrong", "dropped"})),
     Insist("count", "some", {}),
     ck({}, Nothing), ck({}, Nothing) >>

(* Five launches of a no-op.  A cooperative launch may fail; PDL=1 must be *)
(* answered 801.                                                           *)
launch(m, want) ==
  << Ask(want, {"ctx", m}, Push(Kernel("default", {}, {}, {}, {"dropped"}, {m}))),
     Chained(Ask(IF want = {"ok"} THEN want ELSE {"ok", "fail", "refused"},
                 {"ctx"}, Drain("default"))) >>

driver_launch_ex ==
  cuInit \o CurrentContext \o
  Try(<<Load("module"), GetFunction("module")>>
        \o launch("module", {"ok"}) \o launch("module", {"ok"})
        \o launch("module", {"ok", "fail", "refused"})
        \o launch("module", {"ok"}) \o launch("module", {"refused"}),
      <<Unload("module"), ReleaseContext>>)

-------------------------------------------------------------------------------
(* One attempt: both words are cleared, the producer writes 41 and the end *)
(* of its spin, and the consumer, serialised after it, makes 42.           *)
Attempt ==
  LET on(needs, writes, uses) ==
        Refusable({"ctx", "stream", "module"} \union uses,
                  Push(Kernel("stream", {}, needs, writes, {"dropped", "wrong"},
                              uses \union {"module", "stream"})))
      clear(b) == ck({"ctx", b}, Store(b, "0", {}, {"uncopied"}))
  IN << clear("data"), clear("scratch"),
        on({}, {<<"data", "41">>, <<"scratch", "200000">>}, {"data", "scratch"}),
        on({<<"data", "41">>}, {<<"data", "42">>}, {"data"}),
        Wait("stream"),
        DtoH("data_host", "data", "42"), DtoH("scratch_host", "scratch", "200000"),
        Check("data_host", "42", {}), Check("scratch_host", "200000", {}) >>

pdl_cleanup ==
  << Quiesce("stream", {"ctx"}), Release("data", {"ctx"}), Release("scratch", {"ctx"}),
     Release("stream", {"ctx"}), Unload("module"), ReleaseContext >>

driver_pdl_semantics(sm, attempts) ==
  <<Torch(Nothing)>> \o
  IF sm < 90 THEN <<Raise("unsupported")>>
  ELSE cuInit \o CurrentContext \o
       Try(<<Load("module"), GetFunction("module"), GetFunction("module"),
             StreamCreate("stream"), Alloc("data", {}), Alloc("scratch", {})>>
             \o Times(attempts, Attempt),
           pdl_cleanup)

-------------------------------------------------------------------------------
(* A fatbin with an sm_80 and an sm_90 image; what runs stores its own     *)
(* target.  The output word is not cleared first, so it may already hold   *)
(* the expected value.                                                     *)
driver_ptx_selection(sm) ==
  LET expected == IF sm < 90 THEN "80" ELSE "90" IN
  cuInit \o <<Torch(Nothing)>> \o CurrentContext \o
  Try(<<Ask({"ok"}, {"ctx"}, Gain("module", {})), ReturnUnless,
        GetFunction("module"),
        Ask({"ok"}, {"ctx", "module"},
            Store("ptx_version", expected, {}, {"wrong", "dropped"})),
        Ask({"ok"}, {"ctx", "module"}, Nothing),
        Alloc("device_out", {expected}),
        Ask({"ok"}, {"ctx", "module", "device_out"},
            Push(Kernel("default", {}, {}, {<<"device_out", expected>>},
                        {"dropped", "wrong"}, {"module", "device_out"}))),
        Then({"ctx"}, Drain("default")),
        Then({"ctx", "device_out"}, DtoHEffect("host", "device_out", expected)),
        Check("ptx_version", expected, {}), Check("host", expected, {})>>,
      <<Release("device_out", {"ctx"}), Unload("module"), ReleaseContext>>)

-------------------------------------------------------------------------------
(* Mutant: the buffer is not refilled between the variants.                *)
variant_NoRefill(m, target, sm) ==
  Try(<<Ask(IF target <= sm THEN {"ok"} ELSE {"refused"}, {"ctx"}, Gain(m, {})),
        Then({"ctx", m}, Nothing),
        Then({"ctx", "stream", "device", m},
             Push(Kernel("stream", {}, {}, {<<"device", "zero">>}, {"dropped", "wrong"},
                         {m, "device", "stream"}))),
        Then({"ctx", "stream"}, Drain("stream")),
        Then({"ctx", "device"},
             Store("output", "zero", {<<"device", "zero">>}, {"wrong", "uncopied"}))>>
        \o (IF target <= sm THEN <<Check("output", "zero", {})>> ELSE <<>>),
      <<Unload(m)>>)

(* One PTX variant: an image above the advertised target must be refused   *)
(* (209), any other must clear the buffer, refilled before it.  The host   *)
(* copy is not: it still holds what the variant before it read.            *)
variant(m, target, sm) ==
  Try(<<Ask(IF target <= sm THEN {"ok"} ELSE {"refused"}, {"ctx"}, Gain(m, {})),
        Then({"ctx", m}, Nothing),
        Chained(ck({"ctx", "device"}, Store("device", "A5", {}, {"uncopied"}))),
        Then({"ctx", "stream", "device", m},
             Push(Kernel("stream", {}, {}, {<<"device", "zero">>}, {"dropped", "wrong"},
                         {m, "device", "stream"}))),
        Then({"ctx", "stream"}, Drain("stream")),
        Then({"ctx", "device"},
             Store("output", "zero", {<<"device", "zero">>}, {"wrong", "uncopied"}))>>
        \o (IF target <= sm THEN <<Check("output", "zero", {})>> ELSE <<>>),
      <<Unload(m)>>)

(* Nothing reads the first fill: each variant refills the buffer.          *)
driver_buffer_clear(sm) ==
  cuInit \o CurrentContext \o
  Try(<<StreamCreate("stream"), Alloc("device", {"zero"}),
        ck({"ctx", "device"}, Store("device", "A5", {}, {})), Torch(Nothing)>>
        \o variant("module", 80, sm) \o variant("module90", 90, sm),
      <<Quiesce("stream", {"ctx"}), Release("device", {"ctx"}),
        Release("stream", {"ctx"}), ReleaseContext>>)

driver_launch_blocking(sm) == driver_buffer_clear(sm)

-------------------------------------------------------------------------------
driver_func_attributes ==
  cuInit \o
  <<Ask({"ok"}, {}, Nothing), Ask({"ok"}, {}, Nothing),
    ck({}, Store("optin", "positive", {}, {"wrong", "dropped"})),
    Insist("optin", "positive", {})>> \o
  CurrentContext \o
  Try(<<Load("module"), GetFunction("module"),
        Ask({"ok"}, {"ctx", "module"}, Nothing), Ask({"ok"}, {"ctx", "module"}, Nothing),
        Ask({"fail", "refused"}, {"ctx", "module"}, Nothing)>>,
      <<Unload("module"), ReleaseContext>>)

(* probe_case: PTX_VERSION must be the target of the module, 80 twice.     *)
probe_case(m, ptx) ==
  Try(<<Load(m), GetFunction(m),
        Ask({"ok"}, {"ctx", m}, Store(ptx, "80", {}, {"wrong", "dropped"})),
        Ask({"ok"}, {"ctx", m}, Nothing), Check(ptx, "80", {})>>,
      <<Unload(m)>>)

(* The capability is read between the context and the try that frees it.   *)
driver_function_metadata ==
  cuInit \o CurrentContext \o <<Torch(Nothing)>> \o
  Try(probe_case("module", "ptx_version") \o probe_case("module90", "ptx_version2"),
      <<ReleaseContext>>)

-------------------------------------------------------------------------------
(* Entry points that are not exported are a refusal, found before any call.*)
nvml(exported) ==
  IF ~exported THEN <<Raise("unsupported")>> ELSE
  <<ck({}, Gain("nvml", {}))>> \o
  Try(<<ck({"nvml"}, Store("count", "some", {}, {"wrong", "dropped"})),
        Insist("count", "some", {}),
        ck({"nvml"}, Nothing),
        ck({"nvml"}, Store("name", "nonempty", {}, {"dropped"})),
        ck({"nvml"}, Store("memory", "sane", {}, {"wrong", "dropped"})),
        Check("name", "nonempty", {}), Check("memory", "sane", {})>>,
      <<Release("nvml", {})>>)

(* PyTorch's context is kept current; the copy leaves the padding alone.   *)
(* The wait and the destruction of the stream are in one try.              *)
driver_memcpy2d_async ==
  <<ck({}, Nothing), Torch(Adopt("ctx")), ck({"ctx"}, Nothing)>> \o
  Try(<<Alloc("src", {}), Alloc("dst", {}), HtoD("src", "rows"), HtoD("dst", "A5"),
        StreamCreate("stream"),
        ck({"ctx", "stream", "src", "dst"},
           Push(Kernel("stream", {}, {<<"src", "rows">>, <<"dst", "A5">>},
                       {<<"dst", "rows">>}, {"dropped", "wrong"},
                       {"src", "dst", "stream"}))),
        Wait("stream"), DtoH("output", "dst", "rows"), Check("output", "rows", {})>>,
      <<[Quiesce("stream", {"ctx"}) EXCEPT !.skip = 1], Release("stream", {"ctx"}),
        Release("src", {"ctx"}), Release("dst", {"ctx"})>>)
===============================================================================
