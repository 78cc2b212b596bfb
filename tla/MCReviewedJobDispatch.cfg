SPECIFICATION Spec
CONSTANT N = 1
PROPERTIES NoDispatchAfterStop
