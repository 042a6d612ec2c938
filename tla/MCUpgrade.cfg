CONSTANTS
    PacketNum = 3
    Packets <- MCPackets
    MaxTaken = 4
SPECIFICATION Spec
INVARIANTS InstallExact CleanTransferInstalls
