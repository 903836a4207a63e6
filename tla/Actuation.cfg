CONSTANTS Joints = {j1, j2}
          Direct = {"joint", "motor", "amplifier"}
SPECIFICATION Spec
INVARIANTS PoweredOnlyIfEnabled
PROPERTY RobotDisableUnpowers
