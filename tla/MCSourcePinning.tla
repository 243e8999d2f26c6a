--------------------------- MODULE MCSourcePinning --------------------------
(* Two watched components, each with a companion of its own that has a       *)
(* gitlink itself: a new commit of `onnx' moves it, one of `elf' does not.   *)
(* `driver' also has a system gitlink, `openvino' a disabled one and one     *)
(* whose source may not be passed on.  The real lock has four components and *)
(* eight companions, and level-zero-npu-extensions under two (MCShared).     *)
EXTENDS SourcePinning

MCApis == {[c \in {"driver", "openvino"} |-> IF c = "driver" THEN a ELSE "answers"] :
              a \in {"answers", "fails", "absent"}}
MCOrder == <<"driver", "elf", "onnx", "openvino", "reference">>
Link(parent, path, disposition, source) ==
    [parent |-> parent, path |-> path, disposition |-> disposition, source |-> source]
MCLinks == {Link("driver", "yaml", "system", None), Link("driver", "elf-path", "bundled", "elf"),
            Link("openvino", "onnx-path", "bundled", "onnx"), Link("openvino", "riscv", "disabled", None),
            Link("openvino", "spec-path", "bundled", "reference"),
            Link("onnx", "pybind", "disabled", None), Link("elf", "gtest", "disabled", None)}
MCShared == {Link("driver", "elf-path", "bundled", "elf"), Link("openvino", "ext", "bundled", "elf")}
MCTrees == [s \in {"elf", "onnx", "reference"} |-> [n \in 1..2 |->
    CASE s = "elf" -> [p \in {"gtest"} |-> <<p, 1, 0>>]
      [] s = "onnx" -> [p \in {"pybind"} |-> <<p, n, 0>>]
      [] OTHER -> <<>>]]
NoTrees == [s \in {"elf", "onnx", "reference"} |-> [n \in 1..2 |-> <<>>]]

Shape(moved, left, added, annotated) ==
    [moved |-> moved, left |-> left, added |-> added, annotated |-> annotated]
MCShapes == [c \in {"driver", "openvino"} |->
    IF c = "driver"
    THEN {Shape({"elf-path"}, {}, FALSE, TRUE), Shape({"yaml"}, {}, FALSE, FALSE)}
    ELSE {Shape({"onnx-path", "riscv"}, {}, FALSE, FALSE), Shape({}, {}, TRUE, TRUE)}]
MCSharedShapes == [c \in {"driver", "openvino"} |->
    IF c = "driver" THEN {Shape({"elf-path"}, {}, FALSE, FALSE)} ELSE {Shape({"ext"}, {}, FALSE, FALSE)}]
=============================================================================
